---- MODULE Spec2Model ----
(***************************************************************************)
(* A model of the RandomCAD packing core: the two spatial indexes           *)
(* (core/quadtree.py, core/kd_tree.py), the hierarchical collision test     *)
(* (core/collision.py), the group manager (core/group_manager.py) and the   *)
(* generation loop of RandomAggregateGenerator (core/generator.py).         *)
(*                                                                         *)
(* Geometry is exact integer geometry: an outline is an axis-aligned        *)
(* rectangle <<min_x, min_y, max_x, max_y>> (what shapely's .bounds gives),  *)
(* and the distance between two outlines is the Euclidean distance between  *)
(* the rectangles, compared through its square.                             *)
(***************************************************************************)
EXTENDS Integers, Sequences, FiniteSets, TLC

VARIABLES
    \* ---- spatial index exercised on its own (Quadtree / KDTree objects)
    tree,          \* the index object: [kind, bounds, root]
    inserted,      \* the insert calls made so far: <<[obj, ok]>>
    lastOp,        \* the last call made on the index
    \* ---- RandomAggregateGenerator and the thread that runs it
    cfg,                    \* what the caller configured: mode, index, groups, run arguments
    pc,                     \* position of the generation thread ("cleared": over, results cleared)
    generation_mode,        \* self.generation_mode
    target_porosity,        \* self.target_porosity, in percent
    space_partitioning,     \* self.space_partitioning
    groups,                 \* self.groups.groups
    generated_aggregates,   \* self.generated_aggregates
    total_area,             \* self.total_area
    region_area,            \* self.region_area
    generation_canceled,    \* self.generation_canceled
    spatial_index,          \* self.spatial_index
    generated_count,        \* local generated_count
    total_attempts,         \* local total_attempts (consecutive failed rounds)
    dynamic_parallelism,    \* local dynamic_parallelism (size of the worker pool)
    chosen_group,           \* id of the group chosen for the round
    dynamic_attempts,       \* number of attempts submitted in the round
    futures,                \* results of the round's attempts, in completion order
    draw_queue,             \* commands put on draw_queue during the run
    progress_queue,         \* the info, result and error messages put on progress_queue
    returned,               \* value returned by generate_aggregates_in_region
    \* ---- history
    exit_reason,            \* how the loop was left
    cancel_requested,       \* cancel_generation was called since the run was invoked
    cancel_seen,            \* a loop-top check has read the flag as set
    rounds,                 \* rounds finished in this run (commits + failed rounds)
    failed_rounds,          \* rounds of this run that ended without a winner
    round_log,              \* the last finished round: its results and its winner
    \* ---- the geometry functions of utils.py and core/shapes.py called on their own
    fn_call,                \* the last call made: the function and its arguments
    fn_result               \* what that call returned

idxVars == <<tree, inserted, lastOp>>

genVars == <<cfg, pc, generation_mode, target_porosity, space_partitioning, groups,
             generated_aggregates, total_area, region_area, generation_canceled,
             spatial_index, generated_count, total_attempts, dynamic_parallelism,
             chosen_group, dynamic_attempts, futures, draw_queue, progress_queue,
             returned, exit_reason, cancel_requested, cancel_seen, rounds, failed_rounds,
             round_log>>

fnVars == <<fn_call, fn_result>>

vars == <<idxVars, genVars, fnVars>>

(***************************************************************************)
(* Geometry helpers                                                         *)
(***************************************************************************)
None == <<>>

Min(a, b) == IF a < b THEN a ELSE b

Max(a, b) == IF a > b THEN a ELSE b

\* QuadtreeNode._intersects_bounds / KDTreeNode._intersects_bounds
IntersectsBounds(b1, b2) ==
    ~(b1[3] < b2[1] \/ b1[1] > b2[3] \/ b1[4] < b2[2] \/ b1[2] > b2[4])

\* the box grown by d on every side (query_shapely's expanded_bounds)
Expand(b, d) == <<b[1] - d, b[2] - d, b[3] + d, b[4] + d>>

\* obj.get('shapely_obj') or obj.get('shapely_itz'): the bounds the indexes use
ObjBounds(obj) == obj.box

(***************************************************************************)
(* core/quadtree.py                                                         *)
(***************************************************************************)
QuadtreeNode(bounds, depth, max_depth, max_objects) ==
    [bounds |-> bounds, depth |-> depth, max_depth |-> max_depth,
     max_objects |-> max_objects, objects |-> <<>>, children |-> <<>>]

\* QuadtreeNode._divide: four equal quadrants NW, NE, SW, SE
Divide(node) ==
    IF node.children # <<>> THEN node
    ELSE LET b == node.bounds
             mid_x == (b[1] + b[3]) \div 2
             mid_y == (b[2] + b[4]) \div 2
             Kid(bb) == QuadtreeNode(bb, node.depth + 1, node.max_depth, node.max_objects)
         IN [node EXCEPT !.children =
                <<Kid(<<b[1], mid_y, mid_x, b[4]>>),
                  Kid(<<mid_x, mid_y, b[3], b[4]>>),
                  Kid(<<b[1], b[2], mid_x, mid_y>>),
                  Kid(<<mid_x, b[2], b[3], mid_y>>)>>]

RECURSIVE QInsert(_, _)
\* QuadtreeNode.insert: the pair (return value, node after the call)
QInsert(node, obj) ==
    IF ~IntersectsBounds(ObjBounds(obj), node.bounds)
    THEN [ok |-> FALSE, node |-> node]
    ELSE IF node.children = <<>> /\ Len(node.objects) < node.max_objects
    THEN [ok |-> TRUE, node |-> [node EXCEPT !.objects = Append(@, obj)]]
    ELSE LET d == Divide(node)
             rs == [i \in 1..4 |-> QInsert(d.children[i], obj)]
             anyIn == \E i \in 1..4 : rs[i].ok
         IN [ok |-> TRUE,
             node |-> [d EXCEPT !.children = [i \in 1..4 |-> rs[i].node],
                                !.objects = IF anyIn THEN @ ELSE Append(@, obj)]]

RECURSIVE SelectBounds(_, _)
\* the objects of a list whose bounds intersect the query, in list order
SelectBounds(objs, q) ==
    IF objs = <<>> THEN <<>>
    ELSE (IF IntersectsBounds(ObjBounds(Head(objs)), q) THEN <<Head(objs)>> ELSE <<>>)
         \o SelectBounds(Tail(objs), q)

RECURSIVE QQuery(_, _)
\* QuadtreeNode.query_range
QQuery(node, q) ==
    IF ~IntersectsBounds(q, node.bounds) THEN <<>>
    ELSE SelectBounds(node.objects, q)
         \o (IF node.children = <<>> THEN <<>>
             ELSE QQuery(node.children[1], q) \o QQuery(node.children[2], q)
                  \o QQuery(node.children[3], q) \o QQuery(node.children[4], q))

\* QuadtreeNode.clear
QClear(node) == [node EXCEPT !.objects = <<>>, !.children = <<>>]

(***************************************************************************)
(* core/kd_tree.py                                                          *)
(***************************************************************************)
RECURSIVE BoundsOfFrom(_, _)
BoundsOfFrom(objs, acc) ==
    IF objs = <<>> THEN acc
    ELSE LET b == ObjBounds(Head(objs))
         IN BoundsOfFrom(Tail(objs),
                <<Min(acc[1], b[1]), Min(acc[2], b[2]), Max(acc[3], b[3]), Max(acc[4], b[4])>>)

\* KDTreeNode._calculate_bounds: None for an empty node, else the hull
CalculateBounds(objs) ==
    IF objs = <<>> THEN None ELSE BoundsOfFrom(Tail(objs), ObjBounds(Head(objs)))

\* KDTreeNode._get_object_center: the object's 'center' entry
GetObjectCenter(obj) == obj.center

RECURSIVE InsertSorted(_, _, _)
\* put obj after every element whose key is <= its key (a stable sort step)
InsertSorted(sorted, obj, axis) ==
    IF sorted = <<>> THEN <<obj>>
    ELSE IF GetObjectCenter(Head(sorted))[axis + 1] <= GetObjectCenter(obj)[axis + 1]
    THEN <<Head(sorted)>> \o InsertSorted(Tail(sorted), obj, axis)
    ELSE <<obj>> \o sorted

RECURSIVE SortByAxis(_, _)
\* self.objects.sort(key=center[axis]): Python's stable sort
SortByAxis(objs, axis) ==
    IF objs = <<>> THEN <<>>
    ELSE InsertSorted(SortByAxis(SubSeq(objs, 1, Len(objs) - 1), axis), objs[Len(objs)], axis)

RECURSIVE KDTreeNode(_, _, _, _)
RECURSIVE KDSplit(_)
\* KDTreeNode._split
KDSplit(node) ==
    IF node.objects = <<>> THEN node
    ELSE LET sorted == SortByAxis(node.objects, node.axis)
             median_idx == Len(sorted) \div 2
             median == GetObjectCenter(sorted[median_idx + 1])[node.axis + 1]
             left_objects == SubSeq(sorted, 1, median_idx)
             right_objects == SubSeq(sorted, median_idx + 1, Len(sorted))
         IN [node EXCEPT
               !.median = <<median>>,
               !.kids = <<KDTreeNode(left_objects, node.depth + 1, node.max_objects, node.max_depth),
                          KDTreeNode(right_objects, node.depth + 1, node.max_objects, node.max_depth)>>,
               !.objects = <<>>]

\* KDTreeNode.__init__
KDTreeNode(objects, depth, max_objects, max_depth) ==
    LET node == [depth |-> depth, max_objects |-> max_objects, max_depth |-> max_depth,
                 objects |-> objects, kids |-> <<>>, axis |-> depth % 2,
                 bounds |-> CalculateBounds(objects), median |-> None]
    IN IF Len(objects) > max_objects /\ depth < max_depth THEN KDSplit(node) ELSE node

RECURSIVE KDInsert(_, _)
\* KDTreeNode.insert: the pair (return value, node after the call)
KDInsert(node, obj) ==
    IF node.kids = <<>>
    THEN LET objs == Append(node.objects, obj)
             n1 == [node EXCEPT !.objects = objs, !.bounds = CalculateBounds(objs)]
         IN [ok |-> TRUE,
             node |-> IF Len(objs) > node.max_objects /\ node.depth < node.max_depth
                      THEN KDSplit(n1) ELSE n1]
    ELSE IF node.median # None
    THEN LET side == IF GetObjectCenter(obj)[node.axis + 1] < node.median[1] THEN 1 ELSE 2
             r == KDInsert(node.kids[side], obj)
         IN [ok |-> r.ok, node |-> [node EXCEPT !.kids[side] = r.node]]
    ELSE [ok |-> FALSE, node |-> node]

RECURSIVE KDQuery(_, _)
\* KDTreeNode.query_range
KDQuery(node, q) ==
    IF node.bounds = None \/ ~IntersectsBounds(node.bounds, q) THEN <<>>
    ELSE IF node.kids = <<>> THEN SelectBounds(node.objects, q)
    ELSE KDQuery(node.kids[1], q) \o KDQuery(node.kids[2], q)

\* KDTreeNode.clear
KDClear(node) == [node EXCEPT !.objects = <<>>, !.kids = <<>>, !.bounds = None, !.median = None]

(***************************************************************************)
(* The index object the generator holds: Quadtree or KDTree                 *)
(***************************************************************************)
Quadtree(bounds, max_depth, max_objects) ==
    [kind |-> "quadtree", bounds |-> bounds,
     root |-> QuadtreeNode(bounds, 0, max_depth, max_objects)]

KDTree(bounds, max_depth, max_objects) ==
    [kind |-> "kdtree", bounds |-> bounds,
     root |-> KDTreeNode(<<>>, 0, max_objects, max_depth)]

\* Quadtree.insert / KDTree.insert
IndexInsert(t, obj) ==
    LET r == IF t.kind = "quadtree" THEN QInsert(t.root, obj) ELSE KDInsert(t.root, obj)
    IN [ok |-> r.ok, tree |-> [t EXCEPT !.root = r.node]]

\* Quadtree.query_range / KDTree.query_range
QueryRange(t, q) ==
    IF t.kind = "quadtree" THEN QQuery(t.root, q) ELSE KDQuery(t.root, q)

\* Quadtree.query_shapely / KDTree.query_shapely
QueryShapely(t, box, min_distance) == QueryRange(t, Expand(box, min_distance))

\* Quadtree.clear / KDTree.clear
IndexClear(t) ==
    [t EXCEPT !.root = IF t.kind = "quadtree" THEN QClear(t.root) ELSE KDClear(t.root)]

(***************************************************************************)
(* Shapes: a shapely object is a rectangle, or a rectangle buffered by an  *)
(* ITZ thickness (shapely_poly.buffer(itz_thickness))                       *)
(***************************************************************************)
Shape(box, buf) == [box |-> box, buf |-> buf]

\* shapely .bounds
Bounds(sh) == Expand(sh.box, sh.buf)

Gap(lo1, hi1, lo2, hi2) == Max(0, Max(lo2 - hi1, lo1 - hi2))

\* the square of the distance between two rectangles
RectDist2(b1, b2) ==
    LET dx == Gap(b1[1], b1[3], b2[1], b2[3])
        dy == Gap(b1[2], b1[4], b2[2], b2[4])
    IN dx * dx + dy * dy

\* shapely: a.distance(b) < d, for d > 0 (a buffer of thickness t brings an outline
\* t closer; a distance is never negative, so nothing is below d = 0)
DistanceLess(a, b, d) ==
    /\ d > 0
    /\ RectDist2(a.box, b.box) < (d + a.buf + b.buf) * (d + a.buf + b.buf)

\* agg_data["shapely_obj"] and agg_data["shapely_itz"] of an aggregate
ShapelyObj(agg) == Shape(agg.box, 0)

ShapelyItz(agg) == IF agg.itz_thickness > 0 THEN Shape(agg.box, agg.itz_thickness) ELSE None

(***************************************************************************)
(* core/collision.py                                                        *)
(***************************************************************************)
RECURSIVE PotentialShapes(_)
\* the shapely objects of the aggregates an index query returned
PotentialShapes(objs) ==
    IF objs = <<>> THEN <<>>
    ELSE <<ShapelyObj(Head(objs))>>
         \o (IF ShapelyItz(Head(objs)) # None THEN <<ShapelyItz(Head(objs))>> ELSE <<>>)
         \o PotentialShapes(Tail(objs))

\* step 1 of check_collision_hierarchical: the list that is searched.
\* (potential_collisions and potential_shapes are bound as values, each computed once)
SearchList(new_shape, existing, min_distance, index) ==
    IF index.kind = "none" THEN existing
    ELSE CHOOSE list \in
            {IF potential_shapes # <<>> THEN potential_shapes ELSE existing :
                potential_shapes \in
                    {PotentialShapes(potential_collisions) :
                        potential_collisions \in
                            {QueryShapely(index, Bounds(new_shape), min_distance)}}} : TRUE

\* the candidate's box grown by min_distance, the ITZ's left out
ExpandedBBoxWithoutItz(new_shape, new_itz, min_distance) ==
    Expand(Bounds(new_shape), min_distance)

\* step 2: the candidate's box grown by min_distance, united with the ITZ's
ExpandedBBox(new_shape, new_itz, min_distance) ==
    LET e == Expand(Bounds(new_shape), min_distance)
    IN IF new_itz = None THEN e
       ELSE LET i == Expand(Bounds(new_itz), min_distance)
            IN <<Min(e[1], i[1]), Min(e[2], i[2]), Max(e[3], i[3]), Max(e[4], i[4])>>

\* the bounding-box pre-test of one pair (CPU path)
BoxTest(expanded_bbox, shape_bbox) ==
    ~(expanded_bbox[3] < shape_bbox[1] \/ expanded_bbox[1] > shape_bbox[3]
      \/ expanded_bbox[4] < shape_bbox[2] \/ expanded_bbox[2] > shape_bbox[4])

\* check_collision_hierarchical(new_shape, new_itz_shape, existing, min_distance, quadtree)
CheckCollisionHierarchical(new_shape, new_itz, existing, min_distance, index) ==
    \E list \in {SearchList(new_shape, existing, min_distance, index)} :
    \E expanded_bbox \in {ExpandedBBox(new_shape, new_itz, min_distance)} :
        LET possible_colliders == {k \in 1..Len(list) : BoxTest(expanded_bbox, Bounds(list[k]))}
        IN \E k \in possible_colliders :
              \/ DistanceLess(new_shape, list[k], min_distance)
              \/ new_itz # None /\ DistanceLess(new_itz, list[k], min_distance)

(***************************************************************************)
(* core/group_manager.py                                                    *)
(***************************************************************************)
\* GroupManager.set_config raises ValueError: a negative area_ratio or itz_thickness
\* (every configuration explored has the required fields)
SetConfigRaises(groups_config) ==
    \E i \in 1..Len(groups_config) :
        groups_config[i].area_ratio < 0 \/ groups_config[i].itz_thickness < 0

\* GroupManager.set_config: one runtime record per configured group
SetConfig(groups_config) ==
    [i \in 1..Len(groups_config) |->
        [id |-> i,
         area_ratio |-> groups_config[i].area_ratio,
         itz_thickness |-> groups_config[i].itz_thickness,
         max_count |-> groups_config[i].max_count,
         layer_color |-> groups_config[i].layer_color,
         shapes |-> groups_config[i].shapes,
         target_area |-> 0, generated_area |-> 0, count |-> 0, shapes_and_itz |-> <<>>]]

\* generated_area / target_area <= the same of h (0 when target_area is 0);
\* target_area is kept times 100, which leaves the order unchanged
ProgressLE(g, h) ==
    LET gn == IF g.target_area > 0 THEN g.generated_area ELSE 0
        gd == IF g.target_area > 0 THEN g.target_area ELSE 1
        hn == IF h.target_area > 0 THEN h.generated_area ELSE 0
        hd == IF h.target_area > 0 THEN h.target_area ELSE 1
    IN gn * hd <= hn * gd

RECURSIVE InsertByProgress(_, _)
InsertByProgress(sorted, g) ==
    IF sorted = <<>> THEN <<g>>
    ELSE IF ProgressLE(Head(sorted), g)
    THEN <<Head(sorted)>> \o InsertByProgress(Tail(sorted), g)
    ELSE <<g>> \o sorted

RECURSIVE SortedByProgress(_)
\* sorted(self.groups, key=progress): stable
SortedByProgress(gs) ==
    IF gs = <<>> THEN <<>>
    ELSE InsertByProgress(SortedByProgress(SubSeq(gs, 1, Len(gs) - 1)), gs[Len(gs)])

\* select_next_group with the groups of equal progress taken in reverse list order
SelectNextGroupLastOfTies(gs, mode) ==
    LET reversed == [i \in 1..Len(gs) |-> gs[Len(gs) + 1 - i]]
        candidate_groups == SortedByProgress(reversed)
        available_groups == SelectSeq(candidate_groups, LAMBDA g : g.count < g.max_count)
    IN IF available_groups # <<>> THEN available_groups[1].id ELSE 0

\* select_next_group without its filter on count < max_count
SelectNextGroupAnyCount(gs, mode) ==
    LET candidate_groups == SortedByProgress(gs)
    IN IF candidate_groups # <<>> THEN candidate_groups[1].id ELSE 0

\* GroupManager.select_next_group: the id of the chosen group, 0 for None
SelectNextGroup(gs, mode) ==
    LET candidate_groups == SortedByProgress(gs)
        available_groups == SelectSeq(candidate_groups, LAMBDA g : g.count < g.max_count)
    IN IF available_groups # <<>> THEN available_groups[1].id ELSE 0

\* GroupManager.reset_group_stats
ResetGroupStats(gs) ==
    [i \in 1..Len(gs) |-> [gs[i] EXCEPT !.generated_area = 0, !.count = 0, !.shapes_and_itz = <<>>]]

(***************************************************************************)
(* utils.py: boundary helpers                                               *)
(***************************************************************************)
\* is_near_boundary; the bounding-circle radius is given by 25 * radius^2
IsNearBoundary(center, radius2x25, region, min_distance) ==
    LET Near(dist) == \/ dist - 2 * min_distance <= 0
                      \/ 25 * (dist - 2 * min_distance) * (dist - 2 * min_distance) < radius2x25
    IN \/ Near(center[1] - region[1])
       \/ Near(region[3] - center[1])
       \/ Near(center[2] - region[2])
       \/ Near(region[4] - center[2])

\* move_toward_boundary: min() over the dict keeps the first of equal distances,
\* in the order left, right, bottom, top
MoveTowardBoundary(center, region, min_distance) ==
    LET left == center[1] - region[1]
        right == region[3] - center[1]
        bottom == center[2] - region[2]
        top == region[4] - center[2]
    IN IF left <= right /\ left <= bottom /\ left <= top THEN <<region[1] + min_distance, center[2]>>
       ELSE IF right <= bottom /\ right <= top THEN <<region[3] - min_distance, center[2]>>
       ELSE IF bottom <= top THEN <<center[1], region[2] + min_distance>>
       ELSE <<center[1], region[4] - min_distance>>

\* utils.clip
Clip(value, lower, upper) == IF value < lower THEN lower ELSE IF value > upper THEN upper ELSE value

\* adjust_points_to_boundary applied to the four corners of a rectangle
AdjustPointsToBoundary(pts, min_distance, region) ==
    <<Clip(pts[1], region[1] + min_distance, region[3] - min_distance),
      Clip(pts[2], region[2] + min_distance, region[4] - min_distance),
      Clip(pts[3], region[1] + min_distance, region[3] - min_distance),
      Clip(pts[4], region[2] + min_distance, region[4] - min_distance)>>

(***************************************************************************)
(* What the caller configures                                               *)
(***************************************************************************)
\* the region of every run: region_min = (0, 0), region_max = (8, 8)
Region == <<0, 0, 8, 8>>

\* min_distance argument of every run
MinDistance == 1

\* max_attempts argument of every run
MaxAttemptsArg == 1

\* target porosity handed to set_target_porosity, in percent
PorosityArg == 90

\* the shape catalogue of every group: the default polygon (max_size 8)
PolygonShape == [type |-> "polygon", min_size |-> 1, max_size |-> 8, weight |-> 1]

GroupConf(area_ratio, itz_thickness, max_count) ==
    [area_ratio |-> area_ratio, itz_thickness |-> itz_thickness, max_count |-> max_count,
     layer_color |-> "red", shapes |-> <<PolygonShape>>]

\* two grading classes, the first with an ITZ halo
GroupsTwo == <<GroupConf(25, 2, 1), GroupConf(50, 0, 2)>>

\* one class whose area target (12 % of the region) is met by two aggregates
GroupsOneSmallTarget == <<GroupConf(12, 0, 3)>>

\* one class with an ITZ halo whose area target cannot be met
GroupsOneHalo == <<GroupConf(50, 2, 3)>>

\* one class with a wide ITZ halo: most first placements leave room for no second one
GroupsOneWideHalo == <<GroupConf(50, 3, 2)>>

\* most rounds of a run that are followed when the run is explored with a round bound
MaxRounds == 4

\* most attempts of a round whose results are followed individually
MaxTracked == 3

\* the configurations explored: both modes, both indexes, boundary adjustment on and
\* off, each of the three gradings; one call of generate_aggregates_in_region, on
\* Region. region is the region argument of the call under way, calls the region
\* arguments of the calls still to be made, draw_queue whether the caller hands a
\* draw queue (FALSE: draw_queue=None)
Cfgs ==
    [mode : {"count", "porosity"}, index : {"quadtree", "kdtree"},
     boundary_adjust : BOOLEAN,
     groups_config : {GroupsTwo, GroupsOneSmallTarget, GroupsOneHalo},
     region : {Region}, calls : {<<Region>>}, max_attempts : {MaxAttemptsArg},
     min_distance : {MinDistance}, draw_queue : {TRUE},
     bounded : {TRUE}]

(***************************************************************************)
(* Candidates: what one attempt can draw                                    *)
(***************************************************************************)
\* a candidate is a square polygon of half side 1 around its random center
CandIds == 1..4

CandCenter(cid) ==
    CASE cid = 1 -> <<1, 4>>
      [] cid = 2 -> <<4, 4>>
      [] cid = 3 -> <<5, 4>>
      [] OTHER -> <<8, 4>>

CandHalf == 1

CandBox(cid) ==
    LET c == CandCenter(cid)
    IN <<c[1] - CandHalf, c[2] - CandHalf, c[1] + CandHalf, c[2] + CandHalf>>

\* calculate_polygon_area of the closed outline
CandArea(cid) == (2 * CandHalf) * (2 * CandHalf)

\* 25 * actual_radius^2: calculate_bounding_circle takes the mean of the five points of
\* the closed outline, which lies 1/5 of the way to the repeated corner, so the
\* farthest corner is 6/5 of the half diagonal away
CandRadius2x25(cid) == 72 * CandHalf * CandHalf

(***************************************************************************)
(* core/generator.py                                                        *)
(***************************************************************************)
NoAgg == [cid |-> 0]

NoIndex == [kind |-> "none"]

NoRound == [results |-> <<>>, winner |-> 0]

RECURSIVE MaxRadiusOfShapes(_, _)
MaxRadiusOfShapes(shapes, acc) ==
    IF shapes = <<>> THEN acc
    ELSE LET sh == Head(shapes)
             r == IF sh.type = "polygon" THEN (sh.max_size * 3) \div 2 ELSE 0
         IN MaxRadiusOfShapes(Tail(shapes), IF r > acc THEN r ELSE acc)

RECURSIVE MaxRadiusOfGroups(_, _)
MaxRadiusOfGroups(gs, acc) ==
    IF gs = <<>> THEN acc
    ELSE MaxRadiusOfGroups(Tail(gs), MaxRadiusOfShapes(Head(gs).shapes, acc))

\* _calculate_max_possible_radius
CalculateMaxPossibleRadius(gs) == MaxRadiusOfGroups(gs, 0)

\* dynamic_max_objects = max(5, int(20 / (avg_particle_size / 5.0))), avg = radius / 2
DynamicMaxObjects(max_possible_radius) == Max(5, 200 \div max_possible_radius)

\* dynamic_max_depth = max(5, min(10, int(8 + 5.0 / avg_particle_size)))
DynamicMaxDepth(max_possible_radius) ==
    Max(5, Min(10, (8 * max_possible_radius + 10) \div max_possible_radius))

\* self.max_workers
MaxWorkers == 4

\* dynamic_parallelism = max(2, min(8, int(base_parallelism * (1 + 5.0 / avg_particle_size))))
InitialParallelism(max_possible_radius) ==
    Max(2, Min(8, (MaxWorkers * (max_possible_radius + 10)) \div max_possible_radius))

\* the hard ceiling of the worker pool
ParallelismCeiling == 12

\* every how many consecutive failed rounds the pool grows
FailStep == 50

RECURSIVE AllExistingObjects(_)
\* all_existing_objects: the groups' shapes_and_itz lists, concatenated
AllExistingObjects(gs) ==
    IF gs = <<>> THEN <<>> ELSE Head(gs).shapes_and_itz \o AllExistingObjects(Tail(gs))

\* random.uniform(min + buffer, max - buffer) with buffer = max_possible_radius * 1.5
InDrawRange(v, lo, hi, max_possible_radius) ==
    LET a2 == 2 * lo + 3 * max_possible_radius
        b2 == 2 * hi - 3 * max_possible_radius
    IN Min(a2, b2) <= 2 * v /\ 2 * v <= Max(a2, b2)

CanDraw(cid, region, gs) ==
    LET r == CalculateMaxPossibleRadius(gs)
    IN /\ InDrawRange(CandCenter(cid)[1], region[1], region[3], r)
       /\ InDrawRange(CandCenter(cid)[2], region[2], region[4], r)

\* the boundary handling of _generate_single_aggregate up to the clamped points: the
\* centre moved by move_toward_boundary, the outline translated by the same offset and
\* clamped by adjust_points_to_boundary (a list of (x, y) tuples)
BoundaryAdjusted(center, box, region, min_distance) ==
    LET moved == MoveTowardBoundary(center, region, min_distance)
        dx == moved[1] - center[1]
        dy == moved[2] - center[2]
        translated == <<box[1] + dx, box[2] + dy, box[3] + dx, box[4] + dy>>
    IN [center |-> moved, offset |-> <<dx, dy>>, translated |-> translated,
        points |-> AdjustPointsToBoundary(translated, min_distance, region)]

\* an attempt whose boundary handling goes through: the candidate is returned with the
\* moved centre and the clamped outline
GenerateSingleAggregateAdjusted(g, cid, gs, index, region, min_distance, boundary_adjust) ==
    LET center == CandCenter(cid)
        box == CandBox(cid)
        shapely_poly == Shape(box, 0)
        itz_thickness == g.itz_thickness
        shapely_itz == IF itz_thickness > 0 THEN Shape(box, itz_thickness) ELSE None
        collision == CheckCollisionHierarchical(shapely_poly, shapely_itz,
                         AllExistingObjects(gs), min_distance, index)
        near == boundary_adjust /\ IsNearBoundary(center, CandRadius2x25(cid), region, min_distance)
        adjusted == BoundaryAdjusted(center, box, region, min_distance)
    IN IF collision THEN NoAgg
       ELSE [cid |-> cid,
             center |-> IF near THEN adjusted.center ELSE center,
             area |-> CandArea(cid),
             points |-> IF near THEN adjusted.points ELSE box,
             group_id |-> g.id,
             itz_thickness |-> itz_thickness,
             box |-> box]

\* _generate_single_aggregate for the drawn candidate, as _parallel_generate_attempt
\* returns it: agg_data, or NoAgg for None. None is returned for (False, None), on a
\* collision, and when the boundary handling applies: calculate_bounding_circle is then
\* called with the tuples adjust_points_to_boundary returned, reads p.x of a tuple and
\* raises AttributeError, which _parallel_generate_attempt catches
GenerateSingleAggregate(g, cid, gs, index, region, min_distance, boundary_adjust) ==
    LET center == CandCenter(cid)
        box == CandBox(cid)
        shapely_poly == Shape(box, 0)
        itz_thickness == g.itz_thickness
        shapely_itz == IF itz_thickness > 0 THEN Shape(box, itz_thickness) ELSE None
        collision == CheckCollisionHierarchical(shapely_poly, shapely_itz,
                         AllExistingObjects(gs), min_distance, index)
        near == boundary_adjust /\ IsNearBoundary(center, CandRadius2x25(cid), region, min_distance)
    IN IF collision \/ near THEN NoAgg
       ELSE [cid |-> cid,
             center |-> center,
             area |-> CandArea(cid),
             points |-> box,
             group_id |-> g.id,
             itz_thickness |-> itz_thickness,
             box |-> box]

\* _initialize_group_targets; target_area is kept times 100 (area_ratio is a percentage)
InitializeGroupTargets(gs, area) ==
    [i \in 1..Len(gs) |->
        [gs[i] EXCEPT !.target_area = area * gs[i].area_ratio,
                      !.generated_area = 0, !.count = 0, !.shapes_and_itz = <<>>]]

RECURSIVE SumMaxCount(_)
SumMaxCount(gs) == IF gs = <<>> THEN 0 ELSE Head(gs).max_count + SumMaxCount(Tail(gs))

\* max_total_attempts of _check_exit_conditions
MaxTotalAttempts(gs, max_attempts) == max_attempts * SumMaxCount(gs)

\* the attempt limit compared one too early
CheckExitConditionsCapEarly(gs, mode, total, area, porosity, n_generated, max_attempts) ==
    LET all_groups_satisfied ==
            \A i \in 1..Len(gs) : gs[i].generated_area * 100 >= gs[i].target_area
    IN \/ all_groups_satisfied /\ mode # "porosity"
       \/ mode = "porosity" /\ total * 100 >= area * (100 - porosity)
       \/ n_generated >= MaxTotalAttempts(gs, max_attempts) - 1

\* the porosity target left out of the exit conditions
CheckExitConditionsNoPorosity(gs, mode, total, area, porosity, n_generated, max_attempts) ==
    LET all_groups_satisfied ==
            \A i \in 1..Len(gs) : gs[i].generated_area * 100 >= gs[i].target_area
    IN \/ all_groups_satisfied /\ mode # "porosity"
       \/ n_generated >= MaxTotalAttempts(gs, max_attempts)

\* _check_exit_conditions; target_total_area = region_area * (1 - target_porosity)
CheckExitConditions(gs, mode, total, area, porosity, n_generated, max_attempts) ==
    LET all_groups_satisfied ==
            \A i \in 1..Len(gs) : gs[i].generated_area * 100 >= gs[i].target_area
    IN \/ all_groups_satisfied /\ mode # "porosity"
       \/ mode = "porosity" /\ total * 100 >= area * (100 - porosity)
       \/ n_generated >= MaxTotalAttempts(gs, max_attempts)

RECURSIVE GroupProgressSum(_)
\* sum of min(1, generated_area / target_area) over the groups with a target, as
\* <<numerator, denominator, number of terms>>
GroupProgressSum(gs) ==
    IF gs = <<>> THEN <<0, 1, 0>>
    ELSE LET g == Head(gs)
             rest == GroupProgressSum(Tail(gs))
             n == IF g.generated_area * 100 >= g.target_area THEN 1 ELSE g.generated_area * 100
             d == IF g.generated_area * 100 >= g.target_area THEN 1 ELSE g.target_area
         IN IF g.target_area > 0
            THEN <<n * rest[2] + rest[1] * d, d * rest[2], rest[3] + 1>>
            ELSE rest

\* progress_ratio as <<numerator, denominator>>
ProgressRatio(gs, mode, total, area, porosity) ==
    IF mode = "porosity" /\ area * (100 - porosity) > 0
    THEN IF total * 100 >= area * (100 - porosity) THEN <<1, 1>>
         ELSE <<total * 100, area * (100 - porosity)>>
    ELSE LET s == GroupProgressSum(gs)
         IN IF s[3] = 0 THEN <<0, 1>> ELSE <<s[1], s[2] * s[3]>>

\* the attempts of a round growing with the progress instead of shrinking
DynamicAttemptsGrowing(parallelism, ratio) ==
    Max(2, (2 * parallelism * (10 * ratio[2] + 7 * ratio[1])) \div (10 * ratio[2]))

\* dynamic_attempts = max(2, int(base_attempts * (1 - progress_ratio * 0.7)))
DynamicAttempts(parallelism, ratio) ==
    Max(2, (2 * parallelism * (10 * ratio[2] - 7 * ratio[1])) \div (10 * ratio[2]))

RECURSIVE UpdateGroups(_, _)
\* the group loop of _add_aggregate_to_spatial_index_and_collections (first match only)
UpdateGroups(gs, agg) ==
    IF gs = <<>> THEN <<>>
    ELSE IF Head(gs).id = agg.group_id
    THEN <<[Head(gs) EXCEPT
              !.generated_area = @ + agg.area,
              !.count = @ + 1,
              !.shapes_and_itz = @ \o <<ShapelyObj(agg)>>
                                   \o (IF ShapelyItz(agg) # None THEN <<ShapelyItz(agg)>> ELSE <<>>)]>>
         \o Tail(gs)
    ELSE <<Head(gs)>> \o UpdateGroups(Tail(gs), agg)

\* the orchestrator's re-check of a finished attempt's result against the current state
Recheck(result) ==
    CheckCollisionHierarchical(ShapelyObj(result), ShapelyItz(result),
        AllExistingObjects(groups), cfg.min_distance, spatial_index)

\* the results of the round that the as_completed loop accepts
Winners == {k \in 1..Len(futures) : futures[k] # NoAgg /\ ~Recheck(futures[k])}

\* a loop without its break: the last accepted result overwrites agg_data
LastAccepted ==
    IF Winners = {} THEN 0 ELSE CHOOSE w \in Winners : \A v \in Winners : w >= v

\* the result the as_completed loop stops at (agg_data = result; break), 0 for none
FirstAccepted ==
    IF Winners = {} THEN 0 ELSE CHOOSE w \in Winners : \A v \in Winners : w <= v

\* number of attempts of the round that are followed
Tracked == Min(dynamic_attempts, MaxTracked)

GroupById(id) == groups[CHOOSE i \in 1..Len(groups) : groups[i].id = id]

\* no geometry function has been called on its own
NoCall == fn_call = [fn |-> "none"] /\ fn_result = [raised |-> "none", value |-> <<>>]

(***************************************************************************)
(* The generator: state after construction, and its operations              *)
(***************************************************************************)
\* RandomAggregateGenerator.__init__, for a caller that will configure c
GenInit(c) ==
    /\ cfg = c
    /\ pc = "idle"
    /\ generation_mode = "count"
    /\ target_porosity = 0
    /\ space_partitioning = "quadtree"
    /\ groups = <<>>
    /\ generated_aggregates = <<>>
    /\ total_area = 0
    /\ region_area = 0
    /\ generation_canceled = FALSE
    /\ spatial_index = NoIndex
    /\ generated_count = 0
    /\ total_attempts = 0
    /\ dynamic_parallelism = MaxWorkers
    /\ chosen_group = 0
    /\ dynamic_attempts = 0
    /\ futures = <<>>
    /\ draw_queue = <<>>
    /\ progress_queue = <<>>
    /\ returned = -1
    /\ exit_reason = "none"
    /\ cancel_requested = FALSE
    /\ cancel_seen = FALSE
    /\ rounds = 0
    /\ failed_rounds = 0
    /\ round_log = NoRound

\* AggregateGeneratorGUI.generate_aggregates: the setters, then the generation thread
\* is started on generate_aggregates_in_region
Start ==
    /\ pc \in {"idle", "done"}
    /\ cfg.calls # <<>>
    /\ ~SetConfigRaises(cfg.groups_config)
    /\ cfg' = [cfg EXCEPT !.region = Head(cfg.calls), !.calls = Tail(cfg.calls)]
    /\ generation_mode' = cfg.mode
    /\ target_porosity' = IF cfg.mode = "porosity" THEN PorosityArg ELSE target_porosity
    /\ space_partitioning' = cfg.index
    /\ groups' = SetConfig(cfg.groups_config)
    /\ pc' = "invoked"
    /\ draw_queue' = <<>>
    /\ progress_queue' = <<>>
    /\ returned' = -1
    /\ exit_reason' = "none"
    /\ cancel_requested' = FALSE
    /\ cancel_seen' = FALSE
    /\ round_log' = NoRound
    /\ futures' = <<>>
    /\ UNCHANGED <<rounds, failed_rounds, generated_aggregates, total_area, region_area, generation_canceled,
                   spatial_index, generated_count, total_attempts, dynamic_parallelism,
                   chosen_group, dynamic_attempts>>
    /\ UNCHANGED <<idxVars, fnVars>>

\* an exception that leaves the call without any report to the caller
RaiseUnreported ==
    /\ pc' = "done"
    /\ exit_reason' = "error"
    /\ returned' = -1
    /\ progress_queue' = progress_queue

\* an exception leaves generate_aggregates_in_region: _generate_in_thread reports ("error", ...)
Raise ==
    /\ pc' = "done"
    /\ exit_reason' = "error"
    /\ returned' = -1
    /\ progress_queue' = Append(progress_queue, <<"error">>)

\* a region check that lets a region without width or height through
RegionInvalidStrict(region) == region[1] > region[3] \/ region[2] > region[4]

\* min_x >= max_x or min_y >= max_y: generate_aggregates_in_region raises ValueError
RegionInvalid(region) == region[1] >= region[3] \/ region[2] >= region[4]

\* generate_aggregates_in_region from its first line to the start of the loop: the
\* region check (ValueError), the resets, the boundary, the index parameters
\* (20 / (avg_particle_size / 5.0): ZeroDivisionError when no shape gives a radius),
\* the index, the group targets and the worker pool
InitRun ==
    /\ pc = "invoked"
    /\ LET min_x == cfg.region[1]
           min_y == cfg.region[2]
           max_x == cfg.region[3]
           max_y == cfg.region[4]
           max_possible_radius == CalculateMaxPossibleRadius(groups)
       IN IF RegionInvalid(cfg.region)
          THEN /\ Raise
               /\ UNCHANGED <<total_area, generation_canceled, region_area, draw_queue,
                              spatial_index, dynamic_parallelism, generated_count,
                              total_attempts, groups>>
          ELSE /\ total_area' = 0
               /\ generation_canceled' = FALSE
               /\ region_area' = (max_x - min_x) * (max_y - min_y)
               /\ draw_queue' = IF cfg.draw_queue THEN Append(draw_queue, <<"boundary">>)
                                 ELSE draw_queue
               /\ IF max_possible_radius = 0
                  THEN /\ Raise
                       /\ UNCHANGED <<spatial_index, dynamic_parallelism, generated_count,
                                      total_attempts, groups>>
                  ELSE /\ spatial_index' =
                            IF space_partitioning = "kdtree"
                            THEN KDTree(cfg.region, DynamicMaxDepth(max_possible_radius),
                                        DynamicMaxObjects(max_possible_radius))
                            ELSE Quadtree(cfg.region, DynamicMaxDepth(max_possible_radius),
                                          DynamicMaxObjects(max_possible_radius))
                       /\ dynamic_parallelism' = InitialParallelism(max_possible_radius)
                       /\ generated_count' = 0
                       /\ total_attempts' = 0
                       /\ groups' = InitializeGroupTargets(groups, region_area')
                       /\ pc' = "top"
                       /\ UNCHANGED <<progress_queue, returned, exit_reason>>
    /\ failed_rounds' = 0
    /\ UNCHANGED <<cfg, generation_mode, target_porosity, space_partitioning,
                   generated_aggregates, chosen_group, dynamic_attempts, futures,
                   cancel_requested, cancel_seen, rounds, round_log>>
    /\ UNCHANGED <<idxVars, fnVars>>

\* the loop is left by break: the pool is shut down, the call returns
\* len(self.generated_aggregates) and _generate_in_thread reports ("result", count)
Return(reason, queue) ==
    /\ pc' = "done"
    /\ exit_reason' = reason
    /\ returned' = Len(generated_aggregates)
    /\ progress_queue' = Append(queue, <<"result", Len(generated_aggregates)>>)

\* one pass over the top of the while loop: the cancel check, the exit conditions, the
\* choice of the group, and the submission of the round's attempts
LoopTop ==
    /\ pc = "top"
    /\ cancel_seen' = generation_canceled
    /\ IF generation_canceled
       THEN /\ Return("canceled", Append(progress_queue, <<"info", "canceled">>))
            /\ UNCHANGED <<chosen_group, dynamic_attempts>>
       ELSE IF CheckExitConditions(groups, generation_mode, total_area, region_area,
                   target_porosity, Len(generated_aggregates), cfg.max_attempts)
       THEN /\ Return("exit_conditions", progress_queue)
            /\ UNCHANGED <<chosen_group, dynamic_attempts>>
       ELSE IF SelectNextGroup(groups, generation_mode) = 0
       THEN /\ Return("no_group", progress_queue)
            /\ UNCHANGED <<chosen_group, dynamic_attempts>>
       ELSE /\ chosen_group' = SelectNextGroup(groups, generation_mode)
            /\ dynamic_attempts' = DynamicAttempts(dynamic_parallelism,
                   ProgressRatio(groups, generation_mode, total_area, region_area, target_porosity))
            /\ pc' = "round"
            /\ UNCHANGED <<exit_reason, returned, progress_queue>>
    /\ futures' = <<>>
    /\ round_log' = NoRound
    /\ UNCHANGED <<cfg, generation_mode, target_porosity, space_partitioning, groups,
                   generated_aggregates, total_area, region_area, generation_canceled,
                   spatial_index, generated_count, total_attempts, dynamic_parallelism,
                   draw_queue, cancel_requested, rounds, failed_rounds>>
    /\ UNCHANGED <<idxVars, fnVars>>

\* an attempt that enters its candidate into the result collection and the total area
\* on the worker
AttemptCommits ==
    /\ pc = "round"
    /\ Len(futures) < Tracked
    /\ \E cid \in CandIds : \E g \in {GroupById(chosen_group)} :
       \E agg_data \in {GenerateSingleAggregate(g, cid, groups, spatial_index,
                                                cfg.region, cfg.min_distance, cfg.boundary_adjust)} :
          /\ CanDraw(cid, cfg.region, groups)
          /\ futures' = Append(futures, agg_data)
          /\ generated_aggregates' = IF agg_data # NoAgg
                                     THEN Append(generated_aggregates, agg_data)
                                     ELSE generated_aggregates
          /\ total_area' = IF agg_data # NoAgg THEN total_area + agg_data.area ELSE total_area
    /\ UNCHANGED <<cfg, pc, generation_mode, target_porosity, space_partitioning, groups,
                   region_area, generation_canceled,
                   spatial_index, generated_count, total_attempts, dynamic_parallelism,
                   chosen_group, dynamic_attempts, draw_queue, progress_queue, returned,
                   exit_reason, cancel_requested, cancel_seen, rounds, failed_rounds, round_log>>
    /\ UNCHANGED <<idxVars, fnVars>>

\* a worker finishes one submitted attempt (_parallel_generate_attempt)
Attempt ==
    /\ pc = "round"
    /\ Len(futures) < Tracked
    /\ \E cid \in CandIds : \E g \in {GroupById(chosen_group)} :
          /\ CanDraw(cid, cfg.region, groups)
          /\ futures' = Append(futures,
                GenerateSingleAggregate(g, cid, groups, spatial_index,
                                        cfg.region, cfg.min_distance, cfg.boundary_adjust))
    /\ UNCHANGED <<cfg, pc, generation_mode, target_porosity, space_partitioning, groups,
                   generated_aggregates, total_area, region_area, generation_canceled,
                   spatial_index, generated_count, total_attempts, dynamic_parallelism,
                   chosen_group, dynamic_attempts, draw_queue, progress_queue, returned,
                   exit_reason, cancel_requested, cancel_seen, rounds, failed_rounds, round_log>>
    /\ UNCHANGED <<idxVars, fnVars>>

\* an exception of an attempt that makes the loop drop the results the round has so far
AttemptFailsDropsResults ==
    /\ pc = "round"
    /\ Len(futures) < Tracked
    /\ futures' = <<NoAgg>>
    /\ UNCHANGED <<cfg, pc, generation_mode, target_porosity, space_partitioning, groups,
                   generated_aggregates, total_area, region_area, generation_canceled,
                   spatial_index, generated_count, total_attempts, dynamic_parallelism,
                   chosen_group, dynamic_attempts, draw_queue, progress_queue, returned,
                   exit_reason, cancel_requested, cancel_seen, rounds, failed_rounds, round_log>>
    /\ UNCHANGED <<idxVars, fnVars>>

\* _generate_single_aggregate raises on a worker (the weighted choice, the shape, the
\* shapely objects or the collision test): _parallel_generate_attempt catches the
\* exception and returns None
AttemptFails ==
    /\ pc = "round"
    /\ Len(futures) < Tracked
    /\ futures' = Append(futures, NoAgg)
    /\ UNCHANGED <<cfg, pc, generation_mode, target_porosity, space_partitioning, groups,
                   generated_aggregates, total_area, region_area, generation_canceled,
                   spatial_index, generated_count, total_attempts, dynamic_parallelism,
                   chosen_group, dynamic_attempts, draw_queue, progress_queue, returned,
                   exit_reason, cancel_requested, cancel_seen, rounds, failed_rounds, round_log>>
    /\ UNCHANGED <<idxVars, fnVars>>

\* future.result() or the re-check of a finished result raises in the as_completed
\* loop: the exception is logged and the loop goes on to the next result, so the
\* result counts like None
RecheckFails ==
    /\ pc = "round"
    /\ \E k \in 1..Len(futures) :
          /\ futures[k] # NoAgg
          /\ futures' = [futures EXCEPT ![k] = NoAgg]
    /\ UNCHANGED <<cfg, pc, generation_mode, target_porosity, space_partitioning, groups,
                   generated_aggregates, total_area, region_area, generation_canceled,
                   spatial_index, generated_count, total_attempts, dynamic_parallelism,
                   chosen_group, dynamic_attempts, draw_queue, progress_queue, returned,
                   exit_reason, cancel_requested, cancel_seen, rounds, failed_rounds, round_log>>
    /\ UNCHANGED <<idxVars, fnVars>>

\* a commit that enters the aggregate at the head of the result collection
AddAggregateAtHead(agg_data) ==
    /\ total_area' = total_area + agg_data.area
    /\ groups' = UpdateGroups(groups, agg_data)
    /\ spatial_index' = IF spatial_index.kind # "none"
                        THEN IndexInsert(spatial_index, agg_data).tree ELSE spatial_index
    /\ generated_aggregates' = <<agg_data>> \o generated_aggregates

\* a commit that enters every candidate the round's attempts returned
AddAggregateAndLosers(agg_data) ==
    /\ total_area' = total_area + agg_data.area
    /\ groups' = UpdateGroups(groups, agg_data)
    /\ spatial_index' = IF spatial_index.kind # "none"
                        THEN IndexInsert(spatial_index, agg_data).tree ELSE spatial_index
    /\ generated_aggregates' =
          generated_aggregates \o SelectSeq(futures, LAMBDA r : r # NoAgg)

\* a commit that enters the aggregate twice
AddAggregateTwice(agg_data) ==
    /\ total_area' = total_area + 2 * agg_data.area
    /\ groups' = UpdateGroups(UpdateGroups(groups, agg_data), agg_data)
    /\ spatial_index' = IF spatial_index.kind # "none"
                        THEN IndexInsert(IndexInsert(spatial_index, agg_data).tree, agg_data).tree
                        ELSE spatial_index
    /\ generated_aggregates' = generated_aggregates \o <<agg_data, agg_data>>

\* _add_aggregate_to_spatial_index_and_collections
AddAggregate(agg_data) ==
    /\ total_area' = total_area + agg_data.area
    /\ groups' = UpdateGroups(groups, agg_data)
    /\ spatial_index' = IF spatial_index.kind # "none"
                        THEN IndexInsert(spatial_index, agg_data).tree ELSE spatial_index
    /\ generated_aggregates' = Append(generated_aggregates, agg_data)

\* a commit that sends no draw command
SendNoDrawCommand(agg_data, queue) == queue

\* _send_draw_command
SendDrawCommand(agg_data, queue) ==
    Append(queue, <<"aggregate", agg_data.points, GroupById(chosen_group).layer_color>>)

\* the as_completed loop finds a result that passes the re-check: the round's commit.
\* The draw command is sent if draw_queue is given; every tenth commit of the call, when
\* the last regen request is more than a second old (regen), ('regen',) is put on
\* draw_queue whether it is given or not: on None the put raises AttributeError
RoundCommit ==
    /\ pc = "round"
    /\ cfg.bounded => rounds < MaxRounds
    /\ \E k \in {FirstAccepted} :
          /\ k # 0
          /\ LET agg_data == futures[k]
                 sent == IF cfg.draw_queue THEN SendDrawCommand(agg_data, draw_queue)
                         ELSE draw_queue
             IN /\ AddAggregate(agg_data)
                /\ \E regen \in BOOLEAN :
                      IF (generated_count + 1) % 10 = 0 /\ regen
                      THEN IF cfg.draw_queue
                           THEN /\ draw_queue' = Append(sent, <<"regen">>)
                                /\ pc' = "top"
                                /\ UNCHANGED <<progress_queue, returned, exit_reason>>
                           ELSE /\ draw_queue' = sent
                                /\ Raise
                      ELSE /\ draw_queue' = sent
                           /\ pc' = "top"
                           /\ UNCHANGED <<progress_queue, returned, exit_reason>>
                /\ round_log' = [results |-> futures, winner |-> k]
    /\ generated_count' = generated_count + 1
    /\ total_attempts' = 0
    /\ rounds' = Min(rounds + 1, MaxRounds)
    /\ futures' = <<>>
    /\ UNCHANGED <<cfg, generation_mode, target_porosity, space_partitioning, region_area,
                   generation_canceled, dynamic_parallelism, chosen_group, dynamic_attempts,
                   cancel_requested, cancel_seen, failed_rounds>>
    /\ UNCHANGED <<idxVars, fnVars>>

\* a failed round that grows the pool without the ceiling
RoundFailUncapped ==
    /\ pc = "round"
    /\ Len(futures) = Tracked
    /\ Winners = {}
    /\ cfg.bounded => rounds < MaxRounds
    /\ LET n == total_attempts + 1
       IN /\ total_attempts' = IF n > FailStep THEN n - FailStep ELSE n
          /\ dynamic_parallelism' = IF n % FailStep = 0
                                    THEN dynamic_parallelism + 1
                                    ELSE dynamic_parallelism
    /\ rounds' = Min(rounds + 1, MaxRounds)
    /\ failed_rounds' = Min(failed_rounds + 1, MaxRounds)
    /\ round_log' = [results |-> futures, winner |-> 0]
    /\ futures' = <<>>
    /\ pc' = "top"
    /\ UNCHANGED <<cfg, generation_mode, target_porosity, space_partitioning, groups,
                   generated_aggregates, total_area, region_area, generation_canceled,
                   spatial_index, generated_count, chosen_group, dynamic_attempts,
                   draw_queue, progress_queue, returned, exit_reason, cancel_requested,
                   cancel_seen>>
    /\ UNCHANGED <<idxVars, fnVars>>

\* every attempt of the round is done and none is accepted: a failed round.
\* total_attempts is kept modulo 50 above 50 (the code reads only total_attempts % 50)
RoundFail ==
    /\ pc = "round"
    /\ Len(futures) = Tracked
    /\ Winners = {}
    /\ cfg.bounded => rounds < MaxRounds
    /\ LET n == total_attempts + 1
       IN /\ total_attempts' = IF n > FailStep THEN n - FailStep ELSE n
          /\ dynamic_parallelism' = IF n % FailStep = 0
                                    THEN Min(ParallelismCeiling, dynamic_parallelism + 1)
                                    ELSE dynamic_parallelism
    /\ rounds' = Min(rounds + 1, MaxRounds)
    /\ failed_rounds' = Min(failed_rounds + 1, MaxRounds)
    /\ round_log' = [results |-> futures, winner |-> 0]
    /\ futures' = <<>>
    /\ pc' = "top"
    /\ UNCHANGED <<cfg, generation_mode, target_porosity, space_partitioning, groups,
                   generated_aggregates, total_area, region_area, generation_canceled,
                   spatial_index, generated_count, chosen_group, dynamic_attempts,
                   draw_queue, progress_queue, returned, exit_reason, cancel_requested,
                   cancel_seen>>
    /\ UNCHANGED <<idxVars, fnVars>>

\* as_completed(futures, timeout=5.0) raises TimeoutError while an attempt is unfinished
\* and no finished one is accepted; the exception leaves the loop and the call
RoundTimeout ==
    /\ pc = "round"
    /\ Len(futures) < Tracked
    /\ Winners = {}
    /\ Raise
    /\ round_log' = [results |-> futures, winner |-> 0]
    /\ UNCHANGED <<cfg, generation_mode, target_porosity, space_partitioning, groups,
                   generated_aggregates, total_area, region_area, generation_canceled,
                   spatial_index, generated_count, total_attempts, dynamic_parallelism,
                   chosen_group, dynamic_attempts, futures, draw_queue, cancel_requested,
                   cancel_seen, rounds, failed_rounds>>
    /\ UNCHANGED <<idxVars, fnVars>>

\* AggregateGeneratorGUI.cancel_generation -> RandomAggregateGenerator.cancel_generation,
\* possible while the generation thread is alive; the button is then disabled
Cancel ==
    /\ pc \in {"invoked", "top", "round"}
    /\ ~cancel_requested
    /\ generation_canceled' = TRUE
    /\ cancel_requested' = TRUE
    /\ UNCHANGED <<cfg, pc, generation_mode, target_porosity, space_partitioning, groups,
                   generated_aggregates, total_area, region_area, spatial_index,
                   generated_count, total_attempts, dynamic_parallelism, chosen_group,
                   dynamic_attempts, futures, draw_queue, progress_queue, returned,
                   exit_reason, cancel_seen, rounds, failed_rounds, round_log>>
    /\ UNCHANGED <<idxVars, fnVars>>

\* RandomAggregateGenerator.clear_generated, called once the run is over
ClearGenerated ==
    /\ pc = "done"
    /\ pc' = "cleared"
    /\ generated_aggregates' = <<>>
    /\ groups' = ResetGroupStats(groups)
    /\ total_area' = 0
    /\ spatial_index' = NoIndex
    /\ UNCHANGED <<cfg, generation_mode, target_porosity, space_partitioning, region_area,
                   generation_canceled, generated_count, total_attempts, dynamic_parallelism,
                   chosen_group, dynamic_attempts, futures, draw_queue, progress_queue,
                   returned, exit_reason, cancel_requested, cancel_seen, rounds,
                   failed_rounds, round_log>>
    /\ UNCHANGED <<idxVars, fnVars>>

Init ==
    /\ \E c \in Cfgs : GenInit(c)
    /\ tree = NoIndex
    /\ inserted = <<>>
    /\ lastOp = "new"
    /\ NoCall

Next ==
    \/ Start
    \/ InitRun
    \/ LoopTop
    \/ Attempt
    \/ RoundCommit
    \/ RoundFail
    \/ RoundTimeout
    \/ Cancel
    \/ ClearGenerated

Spec == Init /\ [][Next]_vars

\* the same program with every round followed, however many rounds have failed
CfgsLive ==
    {[mode |-> "count", index |-> "quadtree", boundary_adjust |-> FALSE,
      groups_config |-> GroupsOneWideHalo,
      region |-> Region, calls |-> <<Region>>, max_attempts |-> MaxAttemptsArg,
      min_distance |-> MinDistance, draw_queue |-> TRUE, bounded |-> FALSE]}

InitLive ==
    /\ \E c \in CfgsLive : GenInit(c)
    /\ tree = NoIndex
    /\ inserted = <<>>
    /\ lastOp = "new"
    /\ NoCall

\* the generation thread keeps running once started, the pool's workers finish the
\* attempts submitted to them; the user's actions (start, cancel, clear) and a
\* worker being slower than the 5 s timeout are not forced
Fairness ==
    /\ WF_vars(InitRun)
    /\ WF_vars(LoopTop)
    /\ WF_vars(Attempt)
    /\ WF_vars(RoundCommit)
    /\ WF_vars(RoundFail)

SpecLive == InitLive /\ [][Next]_vars /\ Fairness

\* the program with attempts that raise: both modes, the two-class grading
CfgsExc == {c \in Cfgs : c.index = "quadtree" /\ c.groups_config = GroupsTwo}

InitExc ==
    /\ \E c \in CfgsExc : GenInit(c)
    /\ tree = NoIndex
    /\ inserted = <<>>
    /\ lastOp = "new"
    /\ NoCall

NextExc ==
    \/ Next
    \/ AttemptFails
    \/ RecheckFails

SpecExc == InitExc /\ [][NextExc]_vars

(***************************************************************************)
(* A caller of the generator's interface: configurations the interface      *)
(* accepts or must reject, and calls made one after the other               *)
(***************************************************************************)
\* a region with min_x = max_x
RegionNoWidth == <<4, 0, 4, 8>>

\* no group at all
GroupsNone == <<>>

\* one group without any shape spec
GroupsNoShapes == <<[GroupConf(50, 0, 2) EXCEPT !.shapes = <<>>]>>

\* one group with a shape of negative weight beside a shape of positive weight
GroupsNegativeWeight ==
    <<[GroupConf(50, 0, 2) EXCEPT !.shapes = <<[PolygonShape EXCEPT !.weight = -1],
                                                [PolygonShape EXCEPT !.weight = 3]>>]>>

\* one valid group, then a group with a negative area_ratio
GroupsNegativeRatio == <<GroupConf(50, 0, 2), GroupConf(-5, 0, 2)>>

\* one group with a negative itz_thickness
GroupsNegativeItz == <<GroupConf(50, -1, 2)>>

\* one group that is full after one aggregate, far from its area target
GroupsOneSlot == <<GroupConf(50, 0, 1)>>

CallCfg(mode, groups_config, calls, max_attempts) ==
    [mode |-> mode, index |-> "quadtree", boundary_adjust |-> FALSE,
     groups_config |-> groups_config, region |-> Region, calls |-> calls,
     max_attempts |-> max_attempts, min_distance |-> MinDistance, draw_queue |-> TRUE,
     bounded |-> TRUE]

CfgsCall ==
    {CallCfg("count", GroupsTwo, <<Region, Region>>, MaxAttemptsArg),
     CallCfg("porosity", GroupsTwo, <<Region, RegionNoWidth>>, MaxAttemptsArg),
     CallCfg("count", GroupsOneSlot, <<Region>>, MaxAttemptsArg + 1),
     CallCfg("porosity", GroupsOneSlot, <<Region>>, MaxAttemptsArg + 1),
     CallCfg("count", GroupsNone, <<Region>>, MaxAttemptsArg),
     CallCfg("count", GroupsNoShapes, <<Region>>, MaxAttemptsArg),
     CallCfg("count", GroupsNegativeWeight, <<Region>>, MaxAttemptsArg),
     CallCfg("count", GroupsNegativeRatio, <<Region>>, MaxAttemptsArg),
     CallCfg("count", GroupsNegativeItz, <<Region>>, MaxAttemptsArg)}

\* the groups set_config has appended when it raises: those before the offending one
AcceptedPrefix(groups_config) ==
    LET bad == CHOOSE i \in 1..Len(groups_config) :
                  /\ groups_config[i].area_ratio < 0 \/ groups_config[i].itz_thickness < 0
                  /\ \A j \in 1..(i - 1) :
                        groups_config[j].area_ratio >= 0 /\ groups_config[j].itz_thickness >= 0
    IN SubSeq(groups_config, 1, bad - 1)

\* the setters, of which set_groups raises ValueError: no generation thread is started
StartRejected ==
    /\ pc \in {"idle", "done"}
    /\ cfg.calls # <<>>
    /\ SetConfigRaises(cfg.groups_config)
    /\ cfg' = [cfg EXCEPT !.calls = <<>>]
    /\ generation_mode' = cfg.mode
    /\ target_porosity' = IF cfg.mode = "porosity" THEN PorosityArg ELSE target_porosity
    /\ space_partitioning' = cfg.index
    /\ groups' = SetConfig(AcceptedPrefix(cfg.groups_config))
    /\ pc' = "done"
    /\ exit_reason' = "config_error"
    /\ returned' = -1
    /\ draw_queue' = <<>>
    /\ progress_queue' = <<>>
    /\ cancel_requested' = FALSE
    /\ cancel_seen' = FALSE
    /\ round_log' = NoRound
    /\ futures' = <<>>
    /\ UNCHANGED <<rounds, failed_rounds, generated_aggregates, total_area, region_area,
                   generation_canceled, spatial_index, generated_count, total_attempts,
                   dynamic_parallelism, chosen_group, dynamic_attempts>>
    /\ UNCHANGED <<idxVars, fnVars>>

InitCall ==
    /\ \E c \in CfgsCall : GenInit(c)
    /\ tree = NoIndex
    /\ inserted = <<>>
    /\ lastOp = "new"
    /\ NoCall

NextCall ==
    \/ Start
    \/ StartRejected
    \/ InitRun
    \/ LoopTop
    \/ Attempt
    \/ RoundCommit
    \/ RoundFail
    \/ RoundTimeout
    \/ Cancel
    \/ ClearGenerated

SpecCall == InitCall /\ [][NextCall]_vars

(***************************************************************************)
(* Runs with other arguments: a region narrower than the margin kept for    *)
(* the centres, a run of ten commits, a call without a draw queue           *)
(***************************************************************************)
\* a region 3 wide: with buffer = 1.5 * max_possible_radius = 18 the centres are drawn
\* by random.uniform(min_x + buffer, max_x - buffer) from [-15, 18]
RegionNarrow == <<0, 0, 3, 8>>

\* a region 24 wide: the centres are drawn with x in [6, 18]
RegionLong == <<0, 0, 24, 8>>

\* one class that takes ten aggregates
GroupsTen == <<GroupConf(50, 0, 10)>>

\* two classes, the second with area_ratio 0 (set_config accepts it): its target_area
\* is 0
GroupsZeroRatio == <<GroupConf(50, 0, 2), GroupConf(0, 0, 2)>>

\* the narrow region with both indexes; the long region with min_distance = 0 (no
\* distance is below it, so every candidate is accepted), with and without a draw queue;
\* a class of area_ratio 0 next to one with a target
CfgsArgs ==
    {[c EXCEPT !.groups_config = GroupsZeroRatio] :
        c \in {d \in Cfgs : d.mode = "count" /\ d.groups_config = GroupsTwo
                             /\ d.index = "quadtree" /\ ~d.boundary_adjust}}
    \cup
    {[c EXCEPT !.region = RegionNarrow, !.calls = <<RegionNarrow>>] :
        c \in {d \in Cfgs : d.mode = "count" /\ d.groups_config = GroupsTwo}}
    \cup
    {[mode |-> "count", index |-> "quadtree", boundary_adjust |-> TRUE,
      groups_config |-> GroupsTen, region |-> RegionLong, calls |-> <<RegionLong>>,
      max_attempts |-> MaxAttemptsArg, min_distance |-> 0, draw_queue |-> q,
      bounded |-> FALSE] : q \in BOOLEAN}

InitArgs ==
    /\ \E c \in CfgsArgs : GenInit(c)
    /\ tree = NoIndex
    /\ inserted = <<>>
    /\ lastOp = "new"
    /\ NoCall

SpecArgs == InitArgs /\ [][Next]_vars

(***************************************************************************)
(* Properties of the generation loop                                        *)
(***************************************************************************)
\* the run ended other than by an exception
EndedNormally == pc = "done" /\ exit_reason \in {"exit_conditions", "no_group", "canceled"}

\* the run ended by an exit condition or for want of an eligible group
Completed == pc = "done" /\ exit_reason \in {"exit_conditions", "no_group"}

\* the clearance of aggregate a towards aggregate b: outline to outline, and a's
\* buffered (ITZ) outline to b's outline
ClearanceKept(a, b) ==
    /\ ~DistanceLess(ShapelyObj(a), ShapelyObj(b), MinDistance)
    /\ ShapelyItz(a) # None => ~DistanceLess(ShapelyItz(a), ShapelyObj(b), MinDistance)

\* C1: in a run that ends normally every two distinct aggregates of the result
\* collection keep the clearance min_distance, outline to outline and ITZ to outline
C1_ClearanceKept ==
    EndedNormally =>
        \A i, j \in 1..Len(generated_aggregates) :
            i # j => ClearanceKept(generated_aggregates[i], generated_aggregates[j])

\* C2: every run of the generation loop eventually reaches a terminal state
C2_EveryRunTerminates == (pc = "invoked") ~> (pc = "done")

\* C3: the loop is left as soon as commits plus failed rounds exceed
\* max_attempts * sum(max_count): no round is running beyond that number
C3_StopsAtAttemptCap ==
    pc = "round" =>
        Len(generated_aggregates) + failed_rounds <= MaxTotalAttempts(groups, cfg.max_attempts)

CountModeSingleGroup == generation_mode = "count" /\ Len(groups) = 1

\* C4 as stated: count mode, one group with max_count N, run Completed: the group's
\* count is N or the attempt cap (commits plus failed rounds) has been reached
C4_CountOrCapOnly ==
    Completed /\ CountModeSingleGroup =>
        \/ groups[1].count = groups[1].max_count
        \/ Len(generated_aggregates) + failed_rounds >= MaxTotalAttempts(groups, cfg.max_attempts)

\* C4 amended: count mode, one group with max_count N, run Completed: the group's
\* count is N, or its generated area has reached its target area, or the result
\* collection holds at least max_attempts * N aggregates
C4_CountAreaOrCap ==
    Completed /\ CountModeSingleGroup =>
        \/ groups[1].count = groups[1].max_count
        \/ groups[1].generated_area * 100 >= groups[1].target_area
        \/ Len(generated_aggregates) >= MaxTotalAttempts(groups, cfg.max_attempts)

\* a Completed count-mode run of one group that stopped on its area target, short of N
C4_Witness ==
    /\ Completed /\ CountModeSingleGroup
    /\ groups[1].count < groups[1].max_count
    /\ groups[1].generated_area * 100 >= groups[1].target_area
    /\ Len(generated_aggregates) < MaxTotalAttempts(groups, cfg.max_attempts)

\* region_area * (1 - target_porosity), times 100
TargetTotalAreaX100 == region_area * (100 - target_porosity)

\* C5: in porosity mode every commit is made in a round that started below the target
\* total area, so total_area exceeds the target by less than the last committed area
C5_NoCommitPastPorosityTarget ==
    generation_mode = "porosity" /\ generated_aggregates # <<>> =>
        (total_area - generated_aggregates[Len(generated_aggregates)].area) * 100
            < TargetTotalAreaX100

\* a porosity run that crossed its target and was stopped by the exit check
C5_Witness ==
    /\ generation_mode = "porosity"
    /\ pc = "done" /\ exit_reason = "exit_conditions"
    /\ generated_aggregates # <<>>
    /\ total_area * 100 >= TargetTotalAreaX100

\* C6: a run canceled after some commits ends with a terminal report that is neither
\* the completed nor the failed one, and once the flag is observed the run is over
C6_CanceledIsDistinct ==
    /\ (pc = "done" /\ exit_reason = "canceled" /\ generated_count > 0) =>
            progress_queue[Len(progress_queue)][1] \notin {"result", "error"}
    /\ cancel_seen => pc \in {"done", "cleared"}

\* C7: a cancel requested at any moment after the invocation stops the run at the
\* next loop-top check: the check that follows a request ends the run as canceled
C7_CancelNeverLost ==
    [][(pc = "top" /\ cancel_requested /\ pc' # "top")
          => (pc' = "done" /\ exit_reason' = "canceled")]_vars

\* two results of one round, both valid candidates, closer to each other than min_distance
OverlappingPair(results, i, j) ==
    /\ i < j
    /\ results[i] # NoAgg /\ results[j] # NoAgg
    /\ DistanceLess(ShapelyObj(results[i]), ShapelyObj(results[j]), MinDistance)

\* C8 as stated: of two overlapping valid results of a round exactly one is committed
C8_ExactlyOneOfTwo ==
    \A i, j \in 1..Len(round_log.results) :
        OverlappingPair(round_log.results, i, j) => round_log.winner \in {i, j}

\* C8 amended: a round commits one result only, the first in completion order that
\* passes the re-check, and drops every other result of the round: of two overlapping
\* valid results at most one is committed
C8_FirstAcceptedOnly ==
    [][(pc = "round" /\ generated_aggregates' # generated_aggregates) =>
          \E k \in 1..Len(futures) :
              /\ futures[k] # NoAgg
              /\ \A j \in 1..(k - 1) : futures[j] = NoAgg \/ Recheck(futures[j])
              /\ generated_aggregates' = Append(generated_aggregates, futures[k])
              /\ futures' = <<>>]_vars

\* a round with two overlapping valid results has committed one of them
C8_Witness ==
    /\ round_log.winner # 0
    /\ \E i, j \in 1..Len(round_log.results) :
          /\ OverlappingPair(round_log.results, i, j)
          /\ round_log.results[i].cid # round_log.results[j].cid
          /\ round_log.winner = i
          /\ generated_aggregates # <<>>
          /\ generated_aggregates[Len(generated_aggregates)] = round_log.results[i]

\* what validate_config and set_config reject: no group, a group without a shape spec,
\* a negative shape weight, a negative area_ratio or itz_thickness
InvalidGroupsConfig(groups_config) ==
    \/ groups_config = <<>>
    \/ \E i \in 1..Len(groups_config) :
          \/ groups_config[i].shapes = <<>>
          \/ \E k \in 1..Len(groups_config[i].shapes) : groups_config[i].shapes[k].weight < 0
          \/ groups_config[i].area_ratio < 0
          \/ groups_config[i].itz_thickness < 0

\* C11: a run requested with an invalid groups configuration fails with a configuration
\* error before any candidate is generated, and no boundary, placement or progress
\* event has been emitted when it fails
C11_InvalidConfigRejected ==
    InvalidGroupsConfig(cfg.groups_config) =>
        /\ pc \notin {"top", "round"}
        /\ futures = <<>>
        /\ draw_queue = <<>>
        /\ \A k \in 1..Len(progress_queue) : progress_queue[k][1] = "error"
        /\ pc = "done" => exit_reason = "config_error"

\* C12: a call with min_x >= max_x or min_y >= max_y raises before any work starts: the
\* result collection, total_area, the cancel flag, the groups and the spatial index
\* are left as they were, and nothing but the error report is emitted
C12_InvalidRegionFailsFast ==
    [][(/\ pc = "invoked"
        /\ pc' # "invoked"
        /\ cfg.region[1] >= cfg.region[3] \/ cfg.region[2] >= cfg.region[4]) =>
          /\ pc' = "done"
          /\ exit_reason' = "error"
          /\ returned' = -1
          /\ UNCHANGED <<generated_aggregates, total_area, generation_canceled, groups,
                         spatial_index, region_area, draw_queue>>
          /\ progress_queue' = Append(progress_queue, <<"error">>)]_vars

\* a call on a region without width has failed, the results of the call before it kept
C12_Witness ==
    /\ pc = "done"
    /\ exit_reason = "error"
    /\ cfg.region = RegionNoWidth
    /\ generated_aggregates # <<>>
    /\ total_area > 0
    /\ spatial_index # NoIndex
    /\ draw_queue = <<>>

\* C13: in every reachable state each group's count is at most its max_count
C13_CountWithinMax ==
    \A i \in 1..Len(groups) : groups[i].count <= groups[i].max_count

\* the loop has come to its top with every group full and no exit condition met, and
\* has stopped for want of a group
C13_Witness ==
    /\ pc = "done"
    /\ exit_reason = "no_group"
    /\ groups # <<>>
    /\ \A i \in 1..Len(groups) : groups[i].count = groups[i].max_count

\* the positions of the groups with count < max_count
Eligible == {i \in 1..Len(groups) : groups[i].count < groups[i].max_count}

\* generated_area / target_area of the group at position i is below that of the group
\* at position j (a ratio is 0 when target_area is 0)
RatioBelow(i, j) ==
    LET ni == IF groups[i].target_area > 0 THEN groups[i].generated_area ELSE 0
        di == IF groups[i].target_area > 0 THEN groups[i].target_area ELSE 1
        nj == IF groups[j].target_area > 0 THEN groups[j].generated_area ELSE 0
        dj == IF groups[j].target_area > 0 THEN groups[j].target_area ELSE 1
    IN ni * dj < nj * di

\* the id of the eligible group of smallest ratio, the earliest of equals; 0 for none
FurthestBehind ==
    IF Eligible = {} THEN 0
    ELSE groups[CHOOSE i \in Eligible :
                   \A j \in Eligible \ {i} : RatioBelow(i, j) \/ (~RatioBelow(j, i) /\ i < j)].id

\* C14: in both modes select_next_group returns the group of smallest
\* generated_area / target_area among those with count < max_count, the earliest in
\* list order among equals, and none exactly when every group is full; the loop works
\* on the group returned, and a run that finds none ends as Completed
C14_SelectsFurthestBehind ==
    [][/\ SelectNextGroup(groups, generation_mode) = FurthestBehind
       /\ (SelectNextGroup(groups, generation_mode) = 0) = (Eligible = {})
       /\ (pc = "top" /\ pc' = "round") => (chosen_group' = FurthestBehind /\ FurthestBehind # 0)
       /\ (pc = "top" /\ pc' # "top" /\ ~generation_canceled /\ Eligible = {}) =>
             /\ pc' = "done"
             /\ exit_reason' \in {"exit_conditions", "no_group"}
             /\ progress_queue'[Len(progress_queue')] = <<"result", Len(generated_aggregates)>>]_vars

\* two groups are level and the round works on the first of them
C14_Witness ==
    /\ pc = "round"
    /\ Len(groups) = 2
    /\ ~RatioBelow(1, 2) /\ ~RatioBelow(2, 1)
    /\ Eligible = {1, 2}
    /\ chosen_group = groups[1].id

RECURSIVE AreaOf(_, _)
\* the summed area of the aggregates of aggs that belong to the groups of ids
AreaOf(aggs, ids) ==
    IF aggs = <<>> THEN 0
    ELSE (IF Head(aggs).group_id \in ids THEN Head(aggs).area ELSE 0) + AreaOf(Tail(aggs), ids)

\* total_area and the groups' counters are those of the aggregates in the collection
CountersMatchCommits ==
    /\ total_area = AreaOf(generated_aggregates, {groups[i].id : i \in 1..Len(groups)})
    /\ \A i \in 1..Len(groups) :
          /\ groups[i].generated_area = AreaOf(generated_aggregates, {groups[i].id})
          /\ groups[i].count =
                Cardinality({k \in 1..Len(generated_aggregates) :
                                generated_aggregates[k].group_id = groups[i].id})

\* C15: when an error ends the run inside the loop, the run ends as failed with the
\* error reported to the caller, and the aggregates committed before it are still in
\* the collection, unchanged, with total_area and the group counters matching them
C15_ErrorKeepsCommits ==
    [][(pc \in {"top", "round"} /\ pc' = "done" /\ exit_reason' = "error") =>
          /\ returned' = -1
          /\ progress_queue' # <<>>
          /\ progress_queue'[Len(progress_queue')] = <<"error">>
          /\ generated_aggregates' = generated_aggregates
          /\ CountersMatchCommits']_vars

\* a run has failed in its loop after a commit
C15_Witness ==
    /\ pc = "done"
    /\ exit_reason = "error"
    /\ round_log # NoRound
    /\ generated_aggregates # <<>>
    /\ total_area > 0

\* the placement events of draw_queue, in the order they were put
PlacementEvents == SelectSeq(draw_queue, LAMBDA e : e[1] = "aggregate")

\* C16: the placement events of a run are those of its committed aggregates, one for
\* each, in commit order, each emitted with its commit; nothing else is ever drawn
C16_OnePlacementPerCommit ==
    pc \in {"top", "round", "done"} =>
        /\ Len(PlacementEvents) = Len(generated_aggregates)
        /\ \A k \in 1..Len(PlacementEvents) :
              /\ PlacementEvents[k][2] = generated_aggregates[k].points
              /\ \E i \in 1..Len(groups) :
                    /\ groups[i].id = generated_aggregates[k].group_id
                    /\ PlacementEvents[k][3] = groups[i].layer_color

\* a run has ended with two commits and their two placement events
C16_Witness ==
    /\ pc = "done"
    /\ Len(generated_aggregates) = 2
    /\ Len(PlacementEvents) = 2
    /\ generated_aggregates[1].points # generated_aggregates[2].points

\* C17: generate_aggregates_in_region returns the number of aggregates committed by
\* that call, also when it is called again without clear_generated in between
C17_ReturnsCountOfCall ==
    (pc = "done" /\ returned # -1) => returned = generated_count

\* the candidate's outline and buffer outline, as _generate_single_aggregate builds them
\* for a candidate of the group chosen for the round
CandShape(cid) == Shape(CandBox(cid), 0)

CandItz(cid) ==
    IF GroupById(chosen_group).itz_thickness > 0
    THEN Shape(CandBox(cid), GroupById(chosen_group).itz_thickness) ELSE None

\* C21: for every candidate, with or without a buffer outline, check_collision_hierarchical
\* gives the same answer with the run's spatial index (which holds exactly the committed
\* aggregates) as with no index, searching the full existing set
C21_IndexNeverHidesCollision ==
    pc = "round" =>
        \A cid \in CandIds :
            CheckCollisionHierarchical(CandShape(cid), CandItz(cid),
                AllExistingObjects(groups), MinDistance, spatial_index)
            = CheckCollisionHierarchical(CandShape(cid), CandItz(cid),
                AllExistingObjects(groups), MinDistance, NoIndex)

\* C23: when a round is left while one of its attempts has not finished within the
\* timeout, the attempt counts as failed: the round ends with a winner or as a failed
\* round, the loop goes on, and the run does not end as failed
C23_TimeoutIsFailedAttempt ==
    [][(pc = "round" /\ Len(futures) < Tracked /\ pc' # "round") =>
           (pc' = "top" /\ exit_reason' # "error")]_vars

\* what the commits of a run have built
CommittedState ==
    <<generated_aggregates, groups, total_area, spatial_index, generated_count>>

\* the number of results of a round that are None
NoneResults(results) == Len(SelectSeq(results, LAMBDA r : r = NoAgg))

\* C24: when an attempt of a round ends without a candidate (its result becomes None,
\* by an exception while the candidate is generated or collision-tested, or by a
\* collision), only that attempt fails: the run stays in its round, nothing is reported
\* or returned, the committed state is unchanged and every other result of the round
\* is kept
C24_ExceptionFailsOnlyTheAttempt ==
    [][(pc = "round" /\ NoneResults(futures') > NoneResults(futures)) =>
           /\ pc' = "round"
           /\ exit_reason' = "none"
           /\ returned' = -1
           /\ progress_queue' = progress_queue
           /\ CommittedState' = CommittedState
           /\ Len(futures') >= Len(futures)
           /\ \A k \in 1..Len(futures) : futures'[k] \in {futures[k], NoAgg}
           /\ NoneResults(futures') = NoneResults(futures) + 1]_vars

\* the first commit of a run, made in a round one of whose attempts gave None: the
\* region was empty, so the attempt did not fail by a collision
C24_Witness ==
    /\ pc = "top"
    /\ generated_count = 1
    /\ Len(generated_aggregates) = 1
    /\ round_log.winner # 0
    /\ \E k \in 1..Len(round_log.results) : round_log.results[k] = NoAgg

\* C25: every commit adds exactly one aggregate, a result of the round under way, and
\* that aggregate passes the collision check against the committed set and the spatial
\* index as they are when the commit is made: the re-check and the commit are one step
\* of the orchestrating loop, with no other commit in between
C25_RecheckedThenCommitted ==
    [][(generated_aggregates' # generated_aggregates /\ generated_aggregates' # <<>>) =>
           /\ pc = "round"
           /\ Len(generated_aggregates') = Len(generated_aggregates) + 1
           /\ SubSeq(generated_aggregates', 1, Len(generated_aggregates)) = generated_aggregates
           /\ \E k \in 1..Len(futures) : futures[k] = generated_aggregates'[Len(generated_aggregates')]
           /\ ~CheckCollisionHierarchical(
                  ShapelyObj(generated_aggregates'[Len(generated_aggregates')]),
                  ShapelyItz(generated_aggregates'[Len(generated_aggregates')]),
                  AllExistingObjects(groups), MinDistance, spatial_index)]_vars

\* a commit made into a committed set that is not empty
C25_Witness ==
    /\ pc = "top"
    /\ round_log.winner # 0
    /\ generated_count >= 2
    /\ Len(generated_aggregates) >= 2

\* C26: while a round is under way, i.e. while its attempts run on the workers, neither
\* the spatial index, nor a group's generated_area, count or committed geometry, nor
\* total_area, nor the result collection changes; while the loop runs these change only
\* in the commit that ends a round
C26_AttemptsChangeNothing ==
    [][/\ (pc = "round" /\ pc' = "round") => CommittedState' = CommittedState
       /\ (pc \in {"top", "round"} /\ CommittedState' # CommittedState) =>
              (pc = "round" /\ pc' = "top" /\ round_log'.winner # 0)]_vars

\* a worker has returned a candidate while the committed set is not empty
C26_Witness ==
    /\ pc = "round"
    /\ generated_aggregates # <<>>
    /\ \E k \in 1..Len(futures) : futures[k] # NoAgg

\* C27: the attempts that lose their round are discarded. No result of an earlier round
\* is held when the loop is at its top, and a round that ends changes the committed
\* state by its winner alone (by nothing when it has no winner): no losing candidate is
\* committed and none leaves a trace
C27_LosersDiscarded ==
    /\ [](pc = "top" => futures = <<>>)
    /\ [][(pc = "round" /\ pc' = "top") =>
             /\ futures' = <<>>
             /\ round_log'.results = futures
             /\ IF round_log'.winner = 0
                THEN CommittedState' = CommittedState
                ELSE LET agg_data == futures[round_log'.winner]
                     IN /\ generated_aggregates' = Append(generated_aggregates, agg_data)
                        /\ total_area' = total_area + agg_data.area
                        /\ groups' = UpdateGroups(groups, agg_data)
                        /\ spatial_index' = IndexInsert(spatial_index, agg_data).tree
                        /\ generated_count' = generated_count + 1]_vars

\* a round has committed its winner while another attempt of the round had returned a
\* valid candidate, which is not in the result collection
C27_Witness ==
    /\ pc = "top"
    /\ round_log.winner # 0
    /\ \E j \in 1..Len(round_log.results) :
          /\ j # round_log.winner
          /\ round_log.results[j] # NoAgg
          /\ \A i \in 1..Len(generated_aggregates) :
                generated_aggregates[i] # round_log.results[j]

\* C28 as stated: in every round the number of attempts launched is between 2 and 12
C28_AttemptsBetween2And12 ==
    pc = "round" => (2 <= dynamic_attempts /\ dynamic_attempts <= ParallelismCeiling)

\* C28 amended: in every round the number of attempts launched is at least 2 and at
\* most twice the size of the worker pool, which is between 2 and 12: between 2 and 24
C28_AttemptsWithinTwicePool ==
    pc = "round" =>
        /\ 2 <= dynamic_attempts
        /\ dynamic_attempts <= 2 * dynamic_parallelism
        /\ 2 <= dynamic_parallelism
        /\ dynamic_parallelism <= ParallelismCeiling

\* a round with more than 12 attempts, and a later round of the run with fewer
C28_Witness ==
    /\ pc = "round"
    /\ generated_count >= 1
    /\ dynamic_attempts < 2 * dynamic_parallelism
    /\ 2 * dynamic_parallelism > ParallelismCeiling

\* C29: during a run the size of the worker pool changes only in a failed round whose
\* count of consecutive failures is a positive multiple of 50; it then grows by exactly
\* 1; it never exceeds 12; and every commit sets the count of consecutive failures to 0
C29_PoolGrowsEveryFiftyFailures ==
    /\ [](dynamic_parallelism <= 12)
    /\ [][/\ (pc # "invoked" /\ dynamic_parallelism' # dynamic_parallelism) =>
                /\ pc = "round" /\ pc' = "top"
                /\ round_log'.winner = 0
                /\ generated_aggregates' = generated_aggregates
                /\ total_attempts' > 0
                /\ total_attempts' % 50 = 0
                /\ dynamic_parallelism' = dynamic_parallelism + 1
          /\ generated_count' = generated_count + 1 => total_attempts' = 0]_vars

\* the pool has reached 12 workers and a further 50 rounds have failed in a row
C29_Witness ==
    /\ pc = "top"
    /\ round_log.winner = 0
    /\ dynamic_parallelism = ParallelismCeiling
    /\ total_attempts > 0
    /\ total_attempts % FailStep = 0
    /\ generated_count >= 1

RECURSIVE SumOfAreas(_)
\* the summed area of the aggregates of a collection
SumOfAreas(aggs) == IF aggs = <<>> THEN 0 ELSE Head(aggs).area + SumOfAreas(Tail(aggs))

\* C30: in every state reached by runs, cancellations and clear_generated calls,
\* total_area is the sum of the areas of the aggregates in the result collection
C30_TotalAreaIsSumOfResults == total_area = SumOfAreas(generated_aggregates)

\* s is a leading part of t, element for element
IsPrefix(s, t) == Len(s) <= Len(t) /\ SubSeq(t, 1, Len(s)) = s

\* C31: from the first pass over the top of the loop to the end of the run, no step
\* lowers a group's generated_area or count or the total area, and every step keeps
\* the result collection as a leading part of the new one: an aggregate once appended
\* is never removed, moved or changed.
C31_CommitsOnlyGrow ==
    [][(pc = "top" \/ pc = "round") =>
          (/\ Len(groups') = Len(groups)
           /\ \A i \in 1..Len(groups) :
                 /\ groups'[i].id = groups[i].id
                 /\ groups'[i].generated_area >= groups[i].generated_area
                 /\ groups'[i].count >= groups[i].count
           /\ total_area' >= total_area
           /\ IsPrefix(generated_aggregates, generated_aggregates'))]_vars

\* a run that committed twice, for two different groups, has ended
C31_Witness ==
    /\ pc = "done"
    /\ Len(generated_aggregates) = 2
    /\ \A i \in 1..Len(groups) : groups[i].count = 1
    /\ Len(groups) = 2
    /\ total_area > 0

\* the aggregates the call under way has committed: the last generated_count entries
\* of the result collection
CommittedInRun ==
    SubSeq(generated_aggregates, Len(generated_aggregates) - generated_count + 1,
           Len(generated_aggregates))

\* the set of the elements of a sequence
ElementsOf(s) == {s[k] : k \in 1..Len(s)}

\* the loop of a run is under way, or the run has left it by break
InLoopOrLeft == pc = "top" \/ pc = "round" \/ EndedNormally

\* C32: from the start of the loop on, a query of the spatial index over the whole
\* region returns exactly the aggregates the run has committed so far: nothing when
\* the run has committed nothing, every committed aggregate afterwards, and no object
\* of an earlier run.
C32_IndexHoldsTheCommitted ==
    InLoopOrLeft =>
        ElementsOf(QueryRange(spatial_index, cfg.region)) = ElementsOf(CommittedInRun)

\* the outline of aggregate a as a box equals the bounds of the shapely object the
\* collision tests read
StoredIsChecked(a) == a.points = Bounds(ShapelyObj(a))

IdxBounds == <<0, 0, 32, 32>>

\* the most insert calls made on one index
MaxInserts == 4

\* the largest max_objects / max_depth an index is built with
MaxObjectsParam == 2

MaxDepthParam == 2

\* the objects handed to insert: id, center and shapely bounds; objects 7 and 8
\* lie outside the index bounds (a candidate center is drawn from
\* [min + buffer, max - buffer], which leaves the region when it is narrower
\* than 2 * buffer)
IdxObject(i) ==
    LET b == CASE i = 1 -> <<0, 0, 4, 4>>
               [] i = 2 -> <<8, 0, 12, 4>>
               [] i = 3 -> <<20, 0, 24, 4>>
               [] i = 4 -> <<14, 14, 18, 18>>
               [] i = 5 -> <<24, 24, 28, 28>>
               [] i = 6 -> <<0, 20, 4, 24>>
               [] i = 7 -> <<36, 0, 40, 4>>
               [] OTHER -> <<44, 0, 48, 4>>
    IN [id |-> i, box |-> b, center |-> <<(b[1] + b[3]) \div 2, (b[2] + b[4]) \div 2>>]

IdxObjectIds == 1..8

\* the query boxes tried: the full bounds and every object's own box
QueryBoxes == {IdxBounds} \cup {IdxObject(i).box : i \in IdxObjectIds}

InsertedIds == {inserted[k].obj.id : k \in 1..Len(inserted)}

StoredObjs == {inserted[k].obj : k \in {j \in 1..Len(inserted) : inserted[j].ok}}

SeqToSet(s) == {s[k] : k \in 1..Len(s)}

InitIdx ==
    /\ \E kind \in {"quadtree", "kdtree"}, mo \in 1..MaxObjectsParam, md \in 1..MaxDepthParam :
          tree = IF kind = "quadtree" THEN Quadtree(IdxBounds, md, mo)
                 ELSE KDTree(IdxBounds, md, mo)
    /\ inserted = <<>>
    /\ lastOp = "new"
    /\ GenInit(CHOOSE c \in Cfgs : TRUE)
    /\ NoCall

\* index.insert(obj)
IdxInsert ==
    /\ Len(inserted) < MaxInserts
    /\ \E i \in IdxObjectIds \ InsertedIds :
          LET r == IndexInsert(tree, IdxObject(i))
          IN /\ tree' = r.tree
             /\ inserted' = Append(inserted, [obj |-> IdxObject(i), ok |-> r.ok])
    /\ lastOp' = "insert"
    /\ UNCHANGED <<genVars, fnVars>>

\* index.clear()
IdxClear ==
    /\ inserted # <<>>
    /\ tree' = IndexClear(tree)
    /\ inserted' = <<>>
    /\ lastOp' = "clear"
    /\ UNCHANGED <<genVars, fnVars>>

NextIdx == IdxInsert \/ IdxClear

SpecIdx == InitIdx /\ [][NextIdx]_vars

(***************************************************************************)
(* C9  query_range never misses a stored object whose box meets the query   *)
(***************************************************************************)
\* C9: for both indexes, after any inserts, query_range(b) returns every stored
\* object whose bounding box intersects b
C9_NoFalseNegative ==
    \A q \in QueryBoxes : \A o \in StoredObjs :
        IntersectsBounds(o.box, q) => o \in SeqToSet(QueryRange(tree, q))

(***************************************************************************)
(* C10  round trip over the full bounds, and emptiness after clear()        *)
(***************************************************************************)
\* C10: a query_range over the index's own full bounds returns every object whose
\* insert returned true, and after clear() every query_range returns the empty list
C10_RoundTripAndClear ==
    /\ \A o \in StoredObjs : o \in SeqToSet(QueryRange(tree, tree.bounds))
    /\ lastOp = "clear" => \A q \in QueryBoxes : QueryRange(tree, q) = <<>>

(***************************************************************************)
(* utils.calculate_polygon_area and the outline generators of              *)
(* core/shapes.py, called on their own                                      *)
(***************************************************************************)
\* a call that returned value / a call that raised ValueError
Returned(value) == [raised |-> "none", value |-> value]

RaisedValueError == [raised |-> "ValueError", value |-> <<>>]

Abs(x) == IF x < 0 THEN -x ELSE x

RECURSIVE ShoelaceFrom(_, _)
\* the loop of calculate_polygon_area from index i on: for i in range(n - 1), the
\* terms x1 * y2 - x2 * y1 of the points i and i + 1 (no term from the last point
\* back to the first)
ShoelaceFrom(points, i) ==
    IF i >= Len(points) THEN 0
    ELSE (points[i][1] * points[i + 1][2] - points[i + 1][1] * points[i][2])
         + ShoelaceFrom(points, i + 1)

\* calculate_polygon_area, times 2 (the function returns abs(area) / 2.0)
CalculatePolygonArea(points) ==
    IF Len(points) < 3 THEN 0 ELSE Abs(ShoelaceFrom(points, 1))

\* the corners of a rectangle in the order of test_utils (lower left, upper left,
\* upper right, lower right), with or without the first corner repeated at the end
RectanglePoints(x, y, w, h, closed) ==
    LET corners == <<<<x, y>>, <<x, y + h>>, <<x + w, y + h>>, <<x + w, y>>>>
    IN IF closed THEN Append(corners, <<x, y>>) ELSE corners

\* the largest coordinate of a rectangle's lower left corner, and its largest side
MaxCoord == 2

MaxSide == 2

\* calculate_polygon_area(points)
CallPolygonArea ==
    /\ \E x \in (-MaxCoord)..MaxCoord, y \in (-MaxCoord)..MaxCoord,
          w \in 1..MaxSide, h \in 1..MaxSide, closed \in BOOLEAN :
          /\ fn_call' = [fn |-> "calculate_polygon_area", x |-> x, y |-> y, w |-> w, h |-> h,
                         closed |-> closed]
          /\ fn_result' = Returned(CalculatePolygonArea(RectanglePoints(x, y, w, h, closed)))
    /\ UNCHANGED <<idxVars, genVars>>

\* a vertex of a random polygon: its number, and the adjustments optimize_polygon_sides
\* has made to it (each moves the point by a positive amount along a neighbouring edge)
PolygonVertex(i) == [vertex |-> i, moved |-> <<>>]

RECURSIVE OptimizeFrom(_, _, _)
\* the loop of optimize_polygon_sides from edge i on; short holds the edges whose
\* length is below min_edge_length when the loop comes to them: the edge's two end
\* points, optimized_points[i] and optimized_points[i + 1], are moved
OptimizeFrom(optimized_points, i, short) ==
    IF i >= Len(optimized_points) - 1 THEN optimized_points
    ELSE IF i \in short
    THEN OptimizeFrom([optimized_points EXCEPT
                          ![i + 1].moved = Append(@, <<i, "current">>),
                          ![i + 2].moved = Append(@, <<i, "next">>)], i + 1, short)
    ELSE OptimizeFrom(optimized_points, i + 1, short)

\* optimize_polygon_sides
OptimizePolygonSides(points, short) ==
    IF Len(points) < 4 THEN points ELSE OptimizeFrom(points, 0, short)

\* generate_random_polygon: ValueError for sides < 3, else the vertices, the closing
\* point points[0], and the optimisation of short edges
GenerateRandomPolygon(sides, optimize_sides, short) ==
    IF sides < 3 THEN RaisedValueError
    ELSE LET vertices == [k \in 1..sides |-> PolygonVertex(k - 1)]
             points == Append(vertices, vertices[1])
         IN Returned(IF optimize_sides THEN OptimizePolygonSides(points, short) ELSE points)

\* the last point of a circle or ellipse is computed at the angle 2 * math.pi, whose
\* sine is -2.4e-16 and not 0: its y is c + r * -2.4e-16, which rounds to the first
\* point's y only when r is small beside c (certainly for |c| >= 5 r, certainly not
\* for |c| <= 2 r; the calls explored keep out of the band between)
ResidueAbsorbed(c, r) == Abs(c) >= 5 * r

\* the point of a circle or ellipse at angle 2 * math.pi * i / segments
ArcPoint(center, axes, i, segments) ==
    [center |-> center, axes |-> axes,
     turn |-> IF i = segments /\ ResidueAbsorbed(center[2], axes[2]) THEN 0 ELSE i,
     of |-> segments]

\* generate_circle without the lower limit on segments
GenerateCircleUnclamped(center, radius, segments) ==
    Returned([k \in 1..(segments + 1) |-> ArcPoint(center, <<radius, radius>>, k - 1, segments)])

\* generate_circle: segments + 1 points, segments raised to 8 when below
GenerateCircle(center, radius, segments) ==
    LET n == IF segments < 8 THEN 8 ELSE segments
    IN Returned([k \in 1..(n + 1) |-> ArcPoint(center, <<radius, radius>>, k - 1, n)])

\* generate_ellipse with rotation 0.0
GenerateEllipse(center, major_axis, minor_axis, segments) ==
    LET n == IF segments < 8 THEN 8 ELSE segments
    IN Returned([k \in 1..(n + 1) |-> ArcPoint(center, <<major_axis, minor_axis>>, k - 1, n)])

\* the largest number of sides and of segments asked for
MaxSides == 4

MaxSegments == 9

\* the centers of the outlines asked for
ShapeCenters == {<<0, 0>>, <<100, 100>>}

\* generate_random_polygon(center, radius, sides, optimize_sides = ...)
CallGenerateRandomPolygon ==
    /\ \E sides \in (-1)..MaxSides, optimize_sides \in BOOLEAN :
       \E short \in SUBSET (0..(sides - 1)) :
          /\ fn_call' = [fn |-> "generate_random_polygon", sides |-> sides,
                         optimize_sides |-> optimize_sides, short |-> short]
          /\ fn_result' = GenerateRandomPolygon(sides, optimize_sides, short)
    /\ UNCHANGED <<idxVars, genVars>>

\* generate_circle(center, 5, segments)
CallGenerateCircle ==
    /\ \E center \in ShapeCenters, segments \in (-1)..MaxSegments :
          /\ fn_call' = [fn |-> "generate_circle", center |-> center, radius |-> 5,
                         segments |-> segments]
          /\ fn_result' = GenerateCircle(center, 5, segments)
    /\ UNCHANGED <<idxVars, genVars>>

\* generate_ellipse(center, 5, 3, segments = ...)
CallGenerateEllipse ==
    /\ \E center \in ShapeCenters, segments \in (-1)..MaxSegments :
          /\ fn_call' = [fn |-> "generate_ellipse", center |-> center, major_axis |-> 5,
                         minor_axis |-> 3, segments |-> segments]
          /\ fn_result' = GenerateEllipse(center, 5, 3, segments)
    /\ UNCHANGED <<idxVars, genVars>>

InitFn ==
    /\ GenInit(CHOOSE c \in Cfgs : TRUE)
    /\ tree = NoIndex
    /\ inserted = <<>>
    /\ lastOp = "new"
    /\ NoCall

NextFn ==
    \/ CallPolygonArea
    \/ CallGenerateRandomPolygon
    \/ CallGenerateCircle
    \/ CallGenerateEllipse

SpecFn == InitFn /\ [][NextFn]_vars

\* the outlines handed to check_collision_hierarchical: the candidates' squares and one
\* square that lies diagonally off the first
CollisionBoxes == {CandBox(cid) : cid \in CandIds} \cup {<<3, 6, 5, 8>>}

\* the buffer thickness of an outline that has one
HaloThickness == 2

\* the shapely objects of an existing set: outlines, and outlines buffered by an ITZ
ExistingShapes == {Shape(box, buf) : box \in CollisionBoxes, buf \in {0, HaloThickness}}

\* the largest existing set and the largest min_distance handed over
MaxExisting == 2

MaxMinDistance == 2

\* the lists of at most n existing shapes
ExistingLists(n) == UNION {[1..k -> ExistingShapes] : k \in 0..n}

\* check_collision_hierarchical(new_shape, new_itz_shape, existing_shapes_and_itzs,
\* min_distance) called without a spatial index; the function keeps no state, so one
\* call is followed from each start
CallCheckCollision ==
    /\ fn_call.fn = "none"
    /\ \E box \in CollisionBoxes, with_itz \in BOOLEAN, min_distance \in 0..MaxMinDistance :
       \E existing \in ExistingLists(MaxExisting) :
       \E new_itz \in {IF with_itz THEN Shape(box, HaloThickness) ELSE None} :
          /\ fn_call' = [fn |-> "check_collision_hierarchical", new_shape |-> Shape(box, 0),
                         new_itz_shape |-> new_itz, existing |-> existing,
                         min_distance |-> min_distance]
          /\ fn_result' = Returned(CheckCollisionHierarchical(Shape(box, 0), new_itz,
                                       existing, min_distance, NoIndex))
    /\ UNCHANGED <<idxVars, genVars>>

\* C18: calculate_polygon_area returns width x height for every axis-aligned rectangle
\* with integer corners, wherever it lies, for the closed point sequence and for the
\* four corners alone (the area is kept times 2)
C18_RectangleArea ==
    fn_call.fn = "calculate_polygon_area" => fn_result = Returned(2 * fn_call.w * fn_call.h)

\* the outline returned is closed and has n + 1 points
ClosedWith(outline, n) ==
    /\ Len(outline) = n + 1
    /\ outline[Len(outline)] = outline[1]

\* C19: every outline returned by generate_random_polygon with the small-edge
\* optimisation on, by generate_circle and by generate_ellipse is closed (its last
\* point equals its first) and has sides + 1, or max(segments, 8) + 1, points
C19_OutlinesClosed ==
    /\ (fn_call.fn = "generate_random_polygon" /\ fn_call.optimize_sides
            /\ fn_result.raised = "none") =>
          ClosedWith(fn_result.value, fn_call.sides)
    /\ fn_call.fn \in {"generate_circle", "generate_ellipse"} =>
          /\ fn_result.raised = "none"
          /\ ClosedWith(fn_result.value, Max(fn_call.segments, 8))

\* C20: generate_random_polygon rejects every sides < 3 with an error and returns no
\* outline; generate_circle and generate_ellipse return for segments < 8 exactly the
\* outline they return for segments = 8
C20_SidesRejectedSegmentsClamped ==
    /\ (fn_call.fn = "generate_random_polygon" /\ fn_call.sides < 3) =>
          fn_result = RaisedValueError
    /\ (fn_call.fn = "generate_circle" /\ fn_call.segments < 8) =>
          fn_result = GenerateCircle(fn_call.center, fn_call.radius, 8)
    /\ (fn_call.fn = "generate_ellipse" /\ fn_call.segments < 8) =>
          fn_result = GenerateEllipse(fn_call.center, fn_call.major_axis, fn_call.minor_axis, 8)

\* generate_circle has been called with fewer than 8 segments and has returned 9 points
C20_Witness ==
    /\ fn_call.fn = "generate_circle"
    /\ fn_call.segments < 8
    /\ fn_result.raised = "none"
    /\ Len(fn_result.value) = 9

\* check_collision_hierarchical called on its own
SpecCol == InitFn /\ [][CallCheckCollision]_vars

\* the exact test of a pair: the candidate's outline or its buffer outline lies at a
\* distance below min_distance from the existing shape
PairCollides(call, shape) ==
    \/ DistanceLess(call.new_shape, shape, call.min_distance)
    \/ call.new_itz_shape # None /\ DistanceLess(call.new_itz_shape, shape, call.min_distance)

\* C22: without a spatial index check_collision_hierarchical returns true exactly when
\* some object of the existing set lies at a distance below min_distance from the
\* candidate's outline or buffer outline (a distance equal to min_distance is no
\* collision), and the bounding-box pre-test discards no pair that close
C22_CollisionIffCloser ==
    fn_call.fn = "check_collision_hierarchical" =>
        /\ fn_result.value =
              (\E k \in 1..Len(fn_call.existing) : PairCollides(fn_call, fn_call.existing[k]))
        /\ \A k \in 1..Len(fn_call.existing) :
              PairCollides(fn_call, fn_call.existing[k]) =>
                  BoxTest(ExpandedBBox(fn_call.new_shape, fn_call.new_itz_shape,
                                       fn_call.min_distance),
                          Bounds(fn_call.existing[k]))

\* a call whose only existing shape lies exactly min_distance away from the candidate:
\* it passes the bounding-box pre-test and is no collision
C22_Witness ==
    /\ fn_call.fn = "check_collision_hierarchical"
    /\ fn_call.min_distance > 0
    /\ fn_call.new_itz_shape = None
    /\ Len(fn_call.existing) = 1
    /\ fn_call.existing[1].buf = 0
    /\ RectDist2(fn_call.new_shape.box, fn_call.existing[1].box)
          = fn_call.min_distance * fn_call.min_distance
    /\ fn_result.value = FALSE

RECURSIVE NodesHolding(_, _)
\* the number of quadtree nodes whose object list holds obj
NodesHolding(node, obj) ==
    (IF \E k \in 1..Len(node.objects) : node.objects[k] = obj THEN 1 ELSE 0)
    + (IF node.children = <<>> THEN 0
       ELSE NodesHolding(node.children[1], obj) + NodesHolding(node.children[2], obj)
            + NodesHolding(node.children[3], obj) + NodesHolding(node.children[4], obj))

\* the number of places of the list s that hold x
TimesIn(s, x) == Cardinality({k \in 1..Len(s) : s[k] = x})

\* C35: in the quadtree, after any sequence of inserts, each inserted object is stored
\* in exactly one node, and query_range returns no object twice.
C35_StoredInOneNode ==
    tree.kind = "quadtree" =>
        /\ \A o \in StoredObjs : NodesHolding(tree.root, o) = 1
        /\ \A q \in QueryBoxes : \A o \in StoredObjs : TimesIn(QueryRange(tree, q), o) <= 1

RECURSIVE DeepestNode(_)
\* the largest depth of a node of the quadtree below and including node
DeepestNode(node) ==
    IF node.children = <<>> THEN node.depth
    ELSE LET d == [i \in 1..4 |-> DeepestNode(node.children[i])]
         IN CHOOSE m \in {d[i] : i \in 1..4} : \A i \in 1..4 : d[i] <= m

\* C36: after any sequence of quadtree inserts, no node exists at a depth greater than
\* max_depth.
C36_DepthCapped ==
    tree.kind = "quadtree" => DeepestNode(tree.root) <= tree.root.max_depth

\* the group at position i has met its area target
MeetsTarget(gs, i) == gs[i].generated_area * 100 >= gs[i].target_area

C38_NoQueueNeverFails ==
    [][(~cfg.draw_queue /\ pc = "round" /\ generated_count' = generated_count + 1) =>
          (pc' = "top" /\ exit_reason' # "error")]_vars

(***************************************************************************)
(* The boundary handling of a candidate called on its own                   *)
(***************************************************************************)
\* the largest half side of a candidate square handed over
MaxHalf == 2

\* the regions handed over
AdjustRegions == {Region, RegionNarrow}

\* the centres handed over: the integer points of the region, its edges included
AdjustCenters(region) == (region[1]..region[3]) \X (region[2]..region[4])

\* the boundary handling of _generate_single_aggregate (lines 567-578) for a square of
\* half side half around center whenever is_near_boundary holds: the centre is moved,
\* the outline translated and clamped, and calculate_bounding_circle, called with the
\* clamped tuples, raises AttributeError; value holds center and points as they are
\* when it raises. The functions keep no state, so one call is followed from each start
CallBoundaryAdjust ==
    /\ fn_call.fn = "none"
    /\ \E region \in AdjustRegions, half \in 1..MaxHalf, min_distance \in 0..MaxMinDistance :
       \E center \in AdjustCenters(region) :
       \E box \in {<<center[1] - half, center[2] - half, center[1] + half, center[2] + half>>} :
          /\ IsNearBoundary(center, 72 * half * half, region, min_distance)
          /\ fn_call' = [fn |-> "boundary_adjust", center |-> center, box |-> box,
                         region |-> region, min_distance |-> min_distance]
          /\ fn_result' = [raised |-> "AttributeError",
                           value |-> BoundaryAdjusted(center, box, region, min_distance)]
    /\ UNCHANGED <<idxVars, genVars>>

\* the boundary handling called on its own
SpecAdj == InitFn /\ [][CallBoundaryAdjust]_vars

\* the distances of a point to the four edges of a region: left, right, bottom, top
EdgeDistances(pt, region) ==
    <<pt[1] - region[1], region[3] - pt[1], pt[2] - region[2], region[4] - pt[2]>>

\* the centre and the outline the boundary handling has computed are as stated: the
\* moved centre lies exactly min_distance from an edge that was nearest to the drawn
\* centre and keeps its other coordinate, every outline point is first translated by
\* the offset of the centre, and every clamped point has x in
\* [min_x + min_distance, max_x - min_distance] and y in
\* [min_y + min_distance, max_y - min_distance]
MovedTranslatedClamped ==
    LET r == fn_result.value
        region == fn_call.region
        before == EdgeDistances(fn_call.center, region)
        after == EdgeDistances(r.center, region)
        dx == r.center[1] - fn_call.center[1]
        dy == r.center[2] - fn_call.center[2]
    IN /\ \E e \in 1..4 :
             /\ \A f \in 1..4 : before[e] <= before[f]
             /\ after[e] = fn_call.min_distance
             /\ IF e <= 2 THEN dy = 0 ELSE dx = 0
       /\ r.translated = <<fn_call.box[1] + dx, fn_call.box[2] + dy,
                           fn_call.box[3] + dx, fn_call.box[4] + dy>>
       /\ \A i \in {1, 3} :
             /\ region[1] + fn_call.min_distance <= r.points[i]
             /\ r.points[i] <= region[3] - fn_call.min_distance
       /\ \A i \in {2, 4} :
             /\ region[2] + fn_call.min_distance <= r.points[i]
             /\ r.points[i] <= region[4] - fn_call.min_distance

\* C33: when the boundary handling applies to a candidate and the region is at least
\* 2 x min_distance wide and high, the handling ends with the candidate adjusted: its
\* centre exactly min_distance from the nearest edge, its outline translated by the
\* same offset and then every point within min_distance of no edge.
C33_MovedTranslatedClamped ==
    (/\ fn_call.fn = "boundary_adjust"
     /\ fn_call.region[3] - fn_call.region[1] >= 2 * fn_call.min_distance
     /\ fn_call.region[4] - fn_call.region[2] >= 2 * fn_call.min_distance) =>
        (fn_result.raised = "none" /\ MovedTranslatedClamped)

(***************************************************************************)
(* The parameters of the spatial index computed on their own                *)
(***************************************************************************)
\* the largest max_size handed over is 2 * MaxHalfSize
MaxHalfSize == 16

\* one class of polygons of max_size 2 * k: its largest possible radius is 3 * k
SizedGroups(k) ==
    <<[GroupConf(50, 0, 1) EXCEPT !.shapes = <<[PolygonShape EXCEPT !.max_size = 2 * k]>>]>>

\* the parameters generate_aggregates_in_region builds the spatial index with
IndexParams(gs) ==
    LET max_possible_radius == CalculateMaxPossibleRadius(gs)
    IN [max_possible_radius |-> max_possible_radius,
        max_objects |-> DynamicMaxObjects(max_possible_radius),
        max_depth |-> DynamicMaxDepth(max_possible_radius)]

\* the parameters computed for two gradings, the second at least as coarse as the first
CallIndexParams ==
    /\ fn_call.fn = "none"
    /\ \E small \in 1..MaxHalfSize : \E large \in small..MaxHalfSize :
          /\ fn_call' = [fn |-> "index_params", small |-> 2 * small, large |-> 2 * large]
          /\ fn_result' = [raised |-> "none",
                           value |-> <<IndexParams(SizedGroups(small)),
                                       IndexParams(SizedGroups(large))>>]
    /\ UNCHANGED <<idxVars, genVars>>

SpecParams == InitFn /\ [][CallIndexParams]_vars

\* C39: the spatial-index parameters are monotone in particle size: the larger maximum
\* shape radius never yields a smaller max_objects_per_node, nor a larger max_depth,
\* than the smaller one does.
C39_ParamsMonotone ==
    fn_call.fn = "index_params" =>
        /\ fn_result.value[2].max_objects >= fn_result.value[1].max_objects
        /\ fn_result.value[2].max_depth <= fn_result.value[1].max_depth

====
